---- MODULE Spec2Model ----
(***************************************************************************)
(* Storefront backend (src/server.js): tiered pricing, the Airtable        *)
(* catalog cache with its static fallback, and the request handlers that   *)
(* use them.  Prices are JavaScript numbers (IEEE-754 doubles); a price    *)
(* written with two decimals is held as the double nearest to it, and the  *)
(* arithmetic of the handlers is the double arithmetic, modelled exactly   *)
(* on arbitrary-precision binary naturals.                                 *)
(***************************************************************************)
EXTENDS Integers, Sequences, FiniteSets, TLC

(***************************************************************************)
(* Naturals of arbitrary size: little-endian sequences of limbs in base    *)
(* 2^15, without high zero limbs (TLC's own integers have 32 bits).        *)
(***************************************************************************)
LimbBits == 15

RECURSIVE Pow2(_)
Pow2(k) == IF k = 0 THEN 1 ELSE 2 * Pow2(k - 1)

Base == Pow2(LimbBits)

RECURSIVE BigOfNat(_)
BigOfNat(n) == IF n = 0 THEN << >> ELSE << n % Base >> \o BigOfNat(n \div Base)

RECURSIVE Trim(_)
Trim(b) ==
  IF b = << >> THEN << >>
  ELSE IF b[Len(b)] = 0 THEN Trim(SubSeq(b, 1, Len(b) - 1)) ELSE b

Limb(b, i) == IF i >= 1 /\ i <= Len(b) THEN b[i] ELSE 0

RECURSIVE AddFrom(_, _, _, _)
AddFrom(a, b, i, c) ==
  IF i > Len(a) /\ i > Len(b)
  THEN (IF c > 0 THEN << c >> ELSE << >>)
  ELSE LET s == Limb(a, i) + Limb(b, i) + c
       IN << s % Base >> \o AddFrom(a, b, i + 1, s \div Base)

BigAdd(a, b) == AddFrom(a, b, 1, 0)

\* a - b for a >= b
RECURSIVE SubFrom(_, _, _, _)
SubFrom(a, b, i, c) ==
  IF i > Len(a) THEN << >>
  ELSE LET s == Limb(a, i) - Limb(b, i) - c
       IN << (s + Base) % Base >> \o SubFrom(a, b, i + 1, IF s < 0 THEN 1 ELSE 0)

BigSub(a, b) == Trim(SubFrom(a, b, 1, 0))

\* -1, 0, 1 as a < b, a = b, a > b
RECURSIVE CmpFrom(_, _, _)
CmpFrom(a, b, i) ==
  IF i = 0 THEN 0
  ELSE IF a[i] > b[i] THEN 1
  ELSE IF a[i] < b[i] THEN -1
  ELSE CmpFrom(a, b, i - 1)

BigCmp(a, b) ==
  IF Len(a) > Len(b) THEN 1
  ELSE IF Len(a) < Len(b) THEN -1
  ELSE CmpFrom(a, b, Len(a))

\* a * k for a small natural k < Base
RECURSIVE MulSmallFrom(_, _, _, _)
MulSmallFrom(a, k, i, c) ==
  IF i > Len(a) THEN (IF c > 0 THEN << c >> ELSE << >>)
  ELSE LET s == a[i] * k + c
       IN << s % Base >> \o MulSmallFrom(a, k, i + 1, s \div Base)

BigMulSmall(a, k) == IF k = 0 THEN << >> ELSE MulSmallFrom(a, k, 1, 0)

\* a * n for a natural n of any size TLC holds
BigMulNat(a, n) ==
  IF n < Base THEN BigMulSmall(a, n)
  ELSE BigAdd(BigMulSmall(a, n % Base), << 0 >> \o BigMulSmall(a, n \div Base))

\* long division of a by the small natural d < Base, from the high limb down
RECURSIVE DivFrom(_, _, _, _)
DivFrom(a, d, i, r) ==
  IF i = 0 THEN [q |-> << >>, r |-> r]
  ELSE LET t == r * Base + a[i]
           rest == DivFrom(a, d, i - 1, t % d)
       IN [q |-> rest.q \o << t \div d >>, r |-> rest.r]

TrimQuotient(x) == [q |-> Trim(x.q), r |-> x.r]

BigDivSmall(a, d) == TrimQuotient(DivFrom(a, d, Len(a), 0))

RECURSIVE SmallBitLen(_)
SmallBitLen(n) == IF n = 0 THEN 0 ELSE 1 + SmallBitLen(n \div 2)

BitLen(a) == IF a = << >> THEN 0 ELSE LimbBits * (Len(a) - 1) + SmallBitLen(a[Len(a)])

\* a * 2^k
Shl(a, k) ==
  IF a = << >> THEN << >>
  ELSE [i \in 1..(k \div LimbBits) |-> 0] \o BigMulSmall(a, Pow2(k % LimbBits))

\* the quotient x of the limbs above the d lowest, with whether anything was cut off
ShrResult(a, d, x) == [q |-> x.q, inexact |-> (\E i \in 1..d : Limb(a, i) # 0) \/ x.r # 0]

\* floor(a / 2^k), and whether anything was cut off
Shr(a, k) ==
  ShrResult(a, k \div LimbBits,
            BigDivSmall(IF k \div LimbBits >= Len(a) THEN << >>
                        ELSE SubSeq(a, k \div LimbBits + 1, Len(a)),
                        Pow2(k % LimbBits)))

IsOdd(a) == a # << >> /\ a[1] % 2 = 1

\* the natural that the limbs b denote
RECURSIVE NatOfBig(_)
NatOfBig(b) == IF b = << >> THEN 0 ELSE b[1] + Base * NatOfBig(Tail(b))

(***************************************************************************)
(* IEEE-754 binary64 values: sign * m * 2^e with m of exactly 53 bits, or  *)
(* zero.  Every value of the model is far from the subnormal and overflow  *)
(* ranges, so the exponent is unbounded.                                   *)
(***************************************************************************)
MantBits == 53

DblZero == [sign |-> 1, m |-> << >>, e |-> 0]

\* the rounded mantissa q1 may have grown to 54 bits
RoundCarried(sign, q1, e) ==
  IF BitLen(q1) > MantBits
  THEN [sign |-> sign, m |-> Shr(q1, 1).q, e |-> e + 1]
  ELSE [sign |-> sign, m |-> q1, e |-> e]

\* q: the high 53 bits; half: the bit below them; sticky: any bit below that
RoundHalfEven(sign, q, half, sticky, e) ==
  RoundCarried(sign, IF half /\ (sticky \/ IsOdd(q)) THEN BigAdd(q, << 1 >>) ELSE q, e)

\* x: the high 54 bits, and whether any lower bit was set
RoundCut(sign, x, e) == RoundHalfEven(sign, Shr(x.q, 1).q, IsOdd(x.q), x.inexact, e)

RoundSized(sign, n, e, len) ==
  IF len <= MantBits
  THEN [sign |-> sign, m |-> Shl(n, MantBits - len), e |-> e - (MantBits - len)]
  ELSE RoundCut(sign, Shr(n, len - MantBits - 1), e + (len - MantBits))

\* the double nearest to sign * n * 2^e, ties to even
RoundToDouble(sign, n, e) == IF n = << >> THEN DblZero ELSE RoundSized(sign, n, e, BitLen(n))

\* the double that the decimal sign * n / 100 denotes (n a natural of any size):
\* the quotient is taken with GuardBits extra bits and a sticky bit, then rounded
GuardBits == 64

WithSticky(x) == BigAdd(Shl(x.q, 1), IF x.r # 0 THEN << 1 >> ELSE << >>)

DblOfHundredths(sign, n) ==
  IF n = << >> THEN DblZero
  ELSE RoundToDouble(sign, WithSticky(BigDivSmall(Shl(n, GuardBits), 100)),
                     0 - (GuardBits + 1))

\* a price written as c cents, e.g. 2399 for the literal 23.99
DblOfCents(c) == DblOfHundredths(1, BigOfNat(c))

\* x * i for an integer i (exactly representable, so the product of the two
\* doubles is the exact product rounded once)
DblMulInt(x, i) ==
  IF i = 0 \/ x.m = << >> THEN DblZero
  ELSE RoundToDouble(IF i < 0 THEN 0 - x.sign ELSE x.sign,
                     BigMulNat(x.m, IF i < 0 THEN 0 - i ELSE i), x.e)

\* A and B: the two mantissas at the common exponent e; c: A against B
DblSubSigned(a, b, A, B, c, e) ==
  RoundToDouble(IF a.sign # b.sign \/ c >= 0 THEN a.sign ELSE 0 - a.sign,
                IF a.sign # b.sign THEN BigAdd(A, B)
                ELSE IF c >= 0 THEN BigSub(A, B) ELSE BigSub(B, A),
                e)

DblSubAligned(a, b, A, B, e) == DblSubSigned(a, b, A, B, BigCmp(A, B), e)

DblSubAt(a, b, e) == DblSubAligned(a, b, Shl(a.m, a.e - e), Shl(b.m, b.e - e), e)

\* a - b
DblSub(a, b) ==
  IF b.m = << >> THEN a
  ELSE IF a.m = << >> THEN [b EXCEPT !.sign = 0 - b.sign]
  ELSE DblSubAt(a, b, IF a.e < b.e THEN a.e ELSE b.e)

\* h \div 2, rounded up when h is odd
HalfUp(h) == IF IsOdd(h) THEN BigAdd(Shr(h, 1).q, << 1 >>) ELSE Shr(h, 1).q

\* |x| * 100 rounded to an integer, halves up: the digits that
\* Number.prototype.toFixed(2) prints ("n for which n / 10^f - x is as close to
\* zero as possible; if there are two such n, pick the larger n")
HundredthsHalfUp(x) ==
  IF x.m = << >> THEN << >>
  ELSE IF x.e >= 0 THEN Shl(BigMulSmall(x.m, 100), x.e)
  ELSE HalfUp(Shr(BigMulSmall(x.m, 100), (0 - x.e) - 1).q)

\* Number(x.toFixed(2))
NumberToFixed2(x) == DblOfHundredths(x.sign, HundredthsHalfUp(x))

\* Math.round(x) for x >= 0, as a natural: floor(x + 1/2)
MathRound(x) ==
  IF x.m = << >> THEN 0
  ELSE IF x.e >= 0 THEN NatOfBig(Shl(x.m, x.e))
  ELSE NatOfBig(HalfUp(Shr(x.m, (0 - x.e) - 1).q))

\* a number is falsy when it is 0 (NaN does not arise from prices)
DblTruthy(x) == x.m # << >>

\* -1, 0, 1 as a < b, a = b, a > b
DblCmpMagnitude(a, b) ==
  IF a.m = << >> /\ b.m = << >> THEN 0
  ELSE IF a.m = << >> THEN -1
  ELSE IF b.m = << >> THEN 1
  ELSE IF a.e > b.e THEN 1
  ELSE IF a.e < b.e THEN -1
  ELSE BigCmp(a.m, b.m)

DblSign(a) == IF a.m = << >> THEN 0 ELSE a.sign

DblCmp(a, b) ==
  IF DblSign(a) > DblSign(b) THEN 1
  ELSE IF DblSign(a) < DblSign(b) THEN -1
  ELSE IF DblSign(a) = 0 THEN 0
  ELSE DblSign(a) * DblCmpMagnitude(a, b)

DblGeq(a, b) == DblCmp(a, b) >= 0

(***************************************************************************)
(* Request values.  An optional number is << >> (null, undefined or NaN)   *)
(* or << n >>.  A quantity of a request body is missing, a number or a     *)
(* string.                                                                 *)
(***************************************************************************)
Nothing == << >>

Some(n) == << n >>

Missing == [t |-> "undefined"]

Num(n) == [t |-> "number", v |-> n]

Str(s) == [t |-> "string", s |-> s]

Digits == << "0", "1", "2", "3", "4", "5", "6", "7", "8", "9" >>

IsDigit(c) == \E i \in 1..10 : Digits[i] = c

DigitVal(c) == (CHOOSE i \in 1..10 : Digits[i] = c) - 1

IsSpace(c) == c = " "

RECURSIVE SkipSpaces(_)
SkipSpaces(s) ==
  IF s # << >> /\ IsSpace(Head(s)) THEN SkipSpaces(Tail(s)) ELSE s

\* the value of the longest prefix of digits of s, after the digits seen so far
RECURSIVE DigitsPrefix(_, _)
DigitsPrefix(s, acc) ==
  IF s # << >> /\ IsDigit(Head(s))
  THEN DigitsPrefix(Tail(s), 10 * acc + DigitVal(Head(s)))
  ELSE acc

ParseUnsigned(u, sign) ==
  IF u = << >> \/ ~IsDigit(Head(u)) THEN Nothing ELSE Some(sign * DigitsPrefix(u, 0))

ParseSigned(t) ==
  IF t # << >> /\ Head(t) = "-" THEN ParseUnsigned(Tail(t), -1)
  ELSE IF t # << >> /\ Head(t) = "+" THEN ParseUnsigned(Tail(t), 1)
  ELSE ParseUnsigned(t, 1)

\* parseInt(string, 10): leading white space, an optional sign, then the longest
\* prefix of digits; NaN when there is no digit.  What follows is ignored.
parseIntString(s) == ParseSigned(SkipSpaces(s))

\* parseInt(value, 10): the argument is first converted to a string
\* ("undefined" for a missing value, the decimal digits for an integer)
parseInt(value) ==
  IF value.t = "undefined" THEN Nothing
  ELSE IF value.t = "number" THEN Some(value.v)
  ELSE parseIntString(value.s)

\* n || 1, for n a number or NaN
OrOne(n) == IF n = Nothing \/ n[1] = 0 THEN 1 ELSE n[1]

\* Math.max(1, n)
Max1(n) == IF n > 1 THEN n ELSE 1

\* Math.max(1, parseInt(quantity, 10) || 1)
ClampQuantity(quantity) == Max1(OrOne(parseInt(quantity)))

(***************************************************************************)
(* Strings, as sequences of characters.                                    *)
(***************************************************************************)
LowerCase ==
  << "a", "b", "c", "d", "e", "f", "g", "h", "i", "j", "k", "l", "m",
     "n", "o", "p", "q", "r", "s", "t", "u", "v", "w", "x", "y", "z" >>

UpperCase ==
  << "A", "B", "C", "D", "E", "F", "G", "H", "I", "J", "K", "L", "M",
     "N", "O", "P", "Q", "R", "S", "T", "U", "V", "W", "X", "Y", "Z" >>

\* the character of the sequence to that stands where c stands in from, else c
Mapped(c, from, to) ==
  IF \E i \in 1..Len(from) : from[i] = c
  THEN to[CHOOSE i \in 1..Len(from) : from[i] = c]
  ELSE c

\* String.prototype.toLowerCase
toLowerCase(s) == [i \in 1..Len(s) |-> Mapped(s[i], UpperCase, LowerCase)]

\* String.prototype.toUpperCase
toUpperCase(s) == [i \in 1..Len(s) |-> Mapped(s[i], LowerCase, UpperCase)]

\* value || '' for a string or a missing value
OrEmpty(value) == IF value.t = "string" THEN value.s ELSE << >>

\* .replace(/@/g, '_at_').replace(/\./g, '_dot_')
RECURSIVE ReplaceAtAndDot(_)
ReplaceAtAndDot(s) ==
  IF s = << >> THEN << >>
  ELSE (IF Head(s) = "@" THEN << "_", "a", "t", "_" >>
        ELSE IF Head(s) = "." THEN << "_", "d", "o", "t", "_" >>
        ELSE << Head(s) >>) \o ReplaceAtAndDot(Tail(s))

\* emailToS3Folder(email)
emailToS3Folder(email) == ReplaceAtAndDot(toLowerCase(OrEmpty(email)))

\* what stands before the first c of s: all of s when it has none
RECURSIVE Before(_, _)
Before(s, c) ==
  IF s = << >> \/ Head(s) = c THEN << >> ELSE << Head(s) >> \o Before(Tail(s), c)

\* s.split(c)[1]: what stands between the first c and the next, undefined
\* (Nothing) when s has no c
SecondPiece(s, c) ==
  IF Before(s, c) = s THEN Nothing
  ELSE Some(Before(SubSeq(s, Len(Before(s, c)) + 2, Len(s)), c))

\* companyDomainFromEmail(email), of src/unnamed/part_001
companyDomainFromEmail(email) ==
  IF SecondPiece(toLowerCase(OrEmpty(email)), "@") \in { Nothing, Some(<< >>) }
  THEN << "u", "n", "k", "n", "o", "w", "n", ".", "l", "o", "c", "a", "l" >>
  ELSE SecondPiece(toLowerCase(OrEmpty(email)), "@")[1]

(***************************************************************************)
(* Products and pricing tiers.  A tier is [minQty, maxQty, price] with     *)
(* maxQty = Nothing for null and price a double.                           *)
(***************************************************************************)
Tier(lo, hi, cents) == [minQty |-> lo, maxQty |-> hi, price |-> DblOfCents(cents)]

\* the static fallback as src/server.js has it: PROD001, a placeholder comment,
\* PROD020
PRODUCTS ==
  << [id |-> "PROD001", imageFile |-> "18500_Black_Flat_Front-01_big_back.png",
      pricing |-> << Tier(1, Some(9), 2999), Tier(10, Some(49), 2699),
                     Tier(50, Some(99), 2399), Tier(100, Nothing, 1999) >> ],
     [id |-> "PROD020", imageFile |-> "C932_Black_Flat_Front-01_right_chest.png",
      pricing |-> << Tier(1, Some(19), 3999), Tier(20, Some(99), 3599),
                     Tier(100, Some(499), 3199), Tier(500, Nothing, 2799) >> ] >>

\* the upper end forgotten
TierMatchesAnyMax(p, q) == q >= p.minQty

\* the lower comparison turned around
TierMatchesUpToMin(p, q) == q <= p.minQty /\ (p.maxQty = Nothing \/ q <= p.maxQty[1])

\* (p) => q >= p.minQty && (p.maxQty === null || q <= p.maxQty)
TierMatches(p, q) == q >= p.minQty /\ (p.maxQty = Nothing \/ q <= p.maxQty[1])

\* Array.prototype.find: the index of the first matching tier, 0 when none
FindTier(pricing, q) ==
  IF \E i \in 1..Len(pricing) : TierMatches(pricing[i], q)
  THEN CHOOSE i \in 1..Len(pricing) :
         /\ TierMatches(pricing[i], q)
         /\ \A j \in 1..(i - 1) : ~TierMatches(pricing[j], q)
  ELSE 0

Returned(v) == [ok |-> TRUE, value |-> v]

Thrown(e) == [ok |-> FALSE, error |-> e]

\* tier ? tier.price : product.pricing[0].price, for the i-th tier or none (0);
\* product.pricing[0].price throws a TypeError when the list is empty
TierPrice(product, i) ==
  IF i # 0 THEN Returned(product.pricing[i].price)
  ELSE IF product.pricing = << >> THEN Thrown("TypeError")
  ELSE Returned(product.pricing[1].price)

\* calculatePrice(product, quantity): the price of the tier that holds the
\* clamped quantity, else the first tier's
calculatePrice(product, quantity) ==
  TierPrice(product, FindTier(product.pricing, ClampQuantity(quantity)))

(***************************************************************************)
(* Airtable records.  A field is absent, a number, or a string; a string   *)
(* carries what JSON.parse makes of it: Nothing when it throws, else the   *)
(* JSON value.  JSON values are tagged: array, object, number, null.       *)
(***************************************************************************)
Absent == [t |-> "undefined"]

Text(s) == [t |-> "string", s |-> s, json |-> Nothing]

JsonText(v) == [t |-> "string", s |-> "json", json |-> Some(v)]

JsonArray(items) == [k |-> "array", items |-> items]

JsonNull == [k |-> "null"]

JsonNumber(n) == [k |-> "number", n |-> n]

JsonUndefined == [k |-> "undefined"]

\* an object, with its "boxes" property (JsonUndefined when it has none)
JsonObject(boxes) == [k |-> "object", boxes |-> boxes]

Truthy(field) == field.t = "number" \/ (field.t = "string" /\ field.s # "")

\* safeJsonParse(str, fallback)
safeJsonParse(str, fallback) ==
  IF ~Truthy(str) \/ str.t # "string" THEN fallback
  ELSE IF str.json = Nothing THEN fallback
  ELSE str.json[1]

IsArray(v) == v.k = "array"

\* boxesObj?.boxes: undefined for null, for a number and for an object without it
BoxesOf(boxesObj) == IF boxesObj.k = "object" THEN boxesObj.boxes ELSE JsonUndefined

\* a || b on string fields
OrElse(a, b) == IF Truthy(a) THEN a ELSE b

StringOf(field) == IF field.t = "string" THEN field.s ELSE ""

mapAirtableRecordToProduct(rec) ==
  LET f == rec.fields
      pricing == safeJsonParse(f.pricing_json, JsonArray(<< >>))
      boxesObj == safeJsonParse(f.boxes, JsonObject(JsonArray(<< >>)))
  IN [id |-> StringOf(OrElse(f.product_id, Text(rec.id))),
      imageFile |-> StringOf(OrElse(f.image_file, Text(""))),
      pricing |-> IF IsArray(pricing) THEN pricing.items ELSE << >>,
      boxes |-> IF IsArray(BoxesOf(boxesObj)) THEN BoxesOf(boxesObj).items ELSE << >>]

\* r => r.id && r.imageFile && Array.isArray(r.pricing); pricing is a list by now
KeepRow(r) == r.id # "" /\ r.imageFile # ""

RECURSIVE SelectRows(_)
SelectRows(rows) ==
  IF rows = << >> THEN << >>
  ELSE IF KeepRow(Head(rows)) THEN << Head(rows) >> \o SelectRows(Tail(rows))
  ELSE SelectRows(Tail(rows))

\* a tail that returns the rows it kept even when it kept none
NormalizeRecordsKeepingNone(records) ==
  Returned(SelectRows([i \in 1..Len(records) |-> mapAirtableRecordToProduct(records[i])]))

\* the tail of fetchProductsFromAirtableRaw, once every page is in
NormalizeRecords(records) ==
  LET rows == SelectRows([i \in 1..Len(records) |-> mapAirtableRecordToProduct(records[i])])
  IN IF rows = << >> THEN Thrown("No valid products from Airtable") ELSE Returned(rows)

\* mapAirtableRecordToProduct as src/unnamed/part_002 has it: pricing is kept as
\* parsed, and boxesObj.boxes || [] reads a property of whatever was parsed,
\* which throws a TypeError on null
mapAirtableRecordToProduct_part002(rec) ==
  IF safeJsonParse(rec.fields.boxes, JsonObject(JsonArray(<< >>))) = JsonNull
  THEN Thrown("TypeError")
  ELSE Returned(
    [id |-> StringOf(OrElse(rec.fields.product_id, Text(rec.id))),
     imageFile |-> StringOf(OrElse(rec.fields.image_file, Text(""))),
     pricing |-> safeJsonParse(rec.fields.pricing_json, JsonArray(<< >>)),
     boxes |-> IF BoxesOf(safeJsonParse(rec.fields.boxes, JsonObject(JsonArray(<< >>))))
                    \in { JsonUndefined, JsonNull }
               THEN JsonArray(<< >>)
               ELSE BoxesOf(safeJsonParse(rec.fields.boxes, JsonObject(JsonArray(<< >>))))])

\* a field that holds a number
NumberField == [t |-> "number"]

\* a placement box, in fractions of the base image, as quarters
Box(x1, y1, x2, y2) == [x1 |-> x1, y1 |-> y1, x2 |-> x2, y2 |-> y2]

(***************************************************************************)
(* Shipping options.                                                       *)
(***************************************************************************)
\* one shipping option: its display_name and its fixed_amount.amount in cents
Option(name, amount) == [display_name |-> name, amount |-> amount]

\* (shippingAddress?.country || 'US').toUpperCase() === 'US'
IsUS(shippingAddress) ==
  toUpperCase(IF shippingAddress.t = "undefined" \/ OrEmpty(shippingAddress.country) = << >>
              THEN << "U", "S" >> ELSE shippingAddress.country.s) = << "U", "S" >>

\* the free threshold compared with <= instead of <
shippingOptionsForOffByOne(subtotalCents, shippingAddress) ==
  IF IsUS(shippingAddress)
  THEN << IF subtotalCents <= 10000 THEN Option("Standard", 1000)
          ELSE Option("Standard (Free over $100)", 0),
          Option("Express", 2500) >>
  ELSE << Option("Standard (Intl.)", 2500), Option("Express (Intl.)", 5000) >>

\* shippingOptionsFor(subtotalCents, shippingAddress)
shippingOptionsFor(subtotalCents, shippingAddress) ==
  IF IsUS(shippingAddress)
  THEN << IF subtotalCents < 10000 THEN Option("Standard", 1000)
          ELSE Option("Standard (Free over $100)", 0),
          Option("Express", 2500) >>
  ELSE << Option("Standard (Intl.)", 2500), Option("Express (Intl.)", 5000) >>

\* an address with its country
Address(country) == [t |-> "object", country |-> country]

(***************************************************************************)
(* The compositor of src/unnamed/part_002.  A box holds its corners as     *)
(* quarters of the base image (0..4 for 0, 0.25, .., 1), which are exact   *)
(* doubles, as are their differences and their products with a size.       *)
(***************************************************************************)
\* Math.round(a / 4) for an integer a: floor(a / 4 + 1/2)
RoundQuarters(a) == (a + 2) \div 4

Rect(x, y, w, h) == [x |-> x, y |-> y, w |-> w, h |-> h]

\* the default: w = Math.round(width * 0.30), h = Math.round(w * 0.6),
\* x = Math.round((width - w) / 2), y = Math.round(height * 0.30)
DefaultRect(width, height, w) ==
  Rect((width - w + 1) \div 2, MathRound(DblMulInt(DblOfCents(30), height)),
       w, MathRound(DblMulInt(DblOfCents(60), w)))

\* the rectangle composeMockup puts the logo in, on a base of width x height
ComposeRect(width, height, boxes) ==
  IF boxes # << >>
  THEN Rect(RoundQuarters(boxes[1].x1 * width), RoundQuarters(boxes[1].y1 * height),
            RoundQuarters((boxes[1].x2 - boxes[1].x1) * width),
            RoundQuarters((boxes[1].y2 - boxes[1].y1) * height))
  ELSE DefaultRect(width, height, MathRound(DblMulInt(DblOfCents(30), width)))

\* composeMockup(basePath, logoBuf, product): sharp's resize wants a positive
\* width and height and throws otherwise; the output is the base with the logo
\* put at (x, y), so it keeps the base's size
ComposedAt(width, height, rect) ==
  IF rect.w <= 0 \/ rect.h <= 0 THEN Thrown("Expected positive integer for width")
  ELSE Returned([width |-> width, height |-> height, rect |-> rect])

composeMockup(width, height, boxes) == ComposedAt(width, height, ComposeRect(width, height, boxes))

\* the composite of the render handler of src/unnamed/part_001, on a base of
\* width x height with the placement px of the design, in whole pixels:
\* width = Math.max(1, Math.round(x2 - x1)), height likewise, left = x1,
\* top = y1; sharp's composite wants the logo no larger than the base
RenderComposite(width, height, px) ==
  IF Max1(px.x2 - px.x1) > width \/ Max1(px.y2 - px.y1) > height
  THEN Thrown("Image to composite must have same dimensions or smaller")
  ELSE Returned([width |-> width, height |-> height,
                 rect |-> Rect(px.x1, px.y1, Max1(px.x2 - px.x1), Max1(px.y2 - px.y1))])

(***************************************************************************)
(* Bounds of the model and constants of the program.                       *)
(***************************************************************************)
\* the time to live of the cache, 5 * 60 * 1000 ms, in ticks of the model's
\* clock: the clock ticks every 2.5 minutes
TTL == 2

\* the last tick the clock reaches
MaxTime == 3

\* requests in flight at once
MaxReq == 2

\* pages the upstream serves to one fetch before it must end the listing
MaxPages == 2

(***************************************************************************)
(* The upstream table, as the pages it may answer a page request with.     *)
(* The upstream is not under the program's control: any page request may   *)
(* be answered by any of these pages, or fail.                             *)
(***************************************************************************)
Record(recId, productId, imageFile, pricingJson) ==
  [id |-> recId,
   fields |-> [product_id |-> productId, image_file |-> imageFile,
               pricing_json |-> pricingJson, boxes |-> Absent]]

TiersA == << Tier(1, Some(9), 1000), Tier(10, Nothing, 800) >>

\* the same product repriced: the first unit is a free sample
TiersA2 == << Tier(1, Some(1), 0), Tier(2, Nothing, 900) >>

RecordA == Record("recA", Text("PRODA"), Text("a.png"), JsonText(JsonArray(TiersA)))

RecordA2 == Record("recA", Text("PRODA"), Text("a.png"), JsonText(JsonArray(TiersA2)))

\* no pricing_json: normalized to pricing = []
RecordB == Record("recB", Text("PRODB"), Text("b.png"), Absent)

\* no image_file: filtered out
RecordNoImage == Record("recC", Text("PRODC"), Absent, JsonText(JsonArray(TiersA)))

Page(records, offset) == [records |-> records, offset |-> offset]

Pages ==
  { Page(<< RecordA >>, Some("itr/recA")),
    Page(<< RecordA2, RecordB, RecordNoImage >>, Nothing),
    Page(<< RecordNoImage >>, Nothing) }

UpstreamErrors == { "Request failed with status code 403", "timeout of 15000ms exceeded" }

(***************************************************************************)
(* State.                                                                  *)
(***************************************************************************)
VARIABLES
  now,          \* Date.now(), in ticks
  configured,   \* AIRTABLE.token && AIRTABLE.baseId
  env,          \* the other services: [stripe: the client is there, s3Ready: s3Ready()]
  cache,        \* _airtableCache: [products, expiresAt]
  cacheBegan,   \* history: when the fetch that filled the cache began
  inflight,     \* the requests waiting for a page of the upstream, oldest first
  response,     \* history: the response sent last
  product,      \* pricing: the product priced
  quantity,     \* pricing: the quantity argument
  result,       \* pricing: what calculatePrice made of them
  call          \* a call of one of the other functions: [fn, arg, out]

vars ==
  << now, configured, env, cache, cacheBegan, inflight, response, product, quantity, result,
     call >>

pricingVars == << product, quantity, result >>

serverVars == << now, configured, env, cache, cacheBegan, inflight, response >>

\* the product list a handler got from fetchProductsFromAirtableCached or its
\* fallback: how ("hit", "fresh", "fallback"), at what time, and when the fetch
\* that obtained it began
NoList == [how |-> "none", list |-> << >>, at |-> 0, began |-> 0]

NoBody == [productId |-> "", quantity |-> Missing]

\* a response: status 0 when the handler threw and sent none; calls are the
\* services, other than the catalog fetch, that the handler called before it,
\* and world (history) is what the services had to answer to the request
Response(kind, status, body) ==
  [kind |-> kind, status |-> status, body |-> body, got |-> NoList, request |-> NoBody,
   calls |-> << >>, world |-> << >>]

NoResponse == Response("none", 0, << >>)

EmptyCache == [products |-> Nothing, expiresAt |-> 0]

NoCall == [fn |-> "none", src |-> "", arg |-> << >>, out |-> << >>]

\* every service configured
FullEnv == [stripe |-> TRUE, s3Ready |-> TRUE]

NoResult == Thrown("not called")

ServerInit ==
  /\ now = 0
  /\ configured \in BOOLEAN
  /\ cache = EmptyCache
  /\ cacheBegan = 0
  /\ inflight = << >>
  /\ response = NoResponse
  /\ call = NoCall

PricingIdle ==
  /\ product = PRODUCTS[1]
  /\ quantity = Missing
  /\ result = NoResult

\* the handlers of Spec read no service of env
Init == ServerInit /\ PricingIdle /\ env = FullEnv

(***************************************************************************)
(* Handlers.                                                               *)
(***************************************************************************)
\* _airtableCache.products && _airtableCache.expiresAt > now
CacheHit(t) == cache.products # Nothing /\ cache.expiresAt > t

\* a getActiveProducts that lets the failure through
getActiveProductsUncaught(outcome) == outcome

\* getActiveProducts: try { return await fetchProductsFromAirtableCached() }
\* catch { return PRODUCTS }
getActiveProducts(outcome) == IF outcome.ok THEN outcome ELSE Returned(PRODUCTS)

\* GET /api/products: try { products = await fetchProductsFromAirtableCached() }
\* catch { products = PRODUCTS }
ProductsOrFallback(outcome) == IF outcome.ok THEN outcome ELSE Returned(PRODUCTS)

\* Number(pricing?.[0]?.price || 0)
CurrentPrice(p) ==
  IF p.pricing # << >> /\ DblTruthy(p.pricing[1].price) THEN p.pricing[1].price ELSE DblZero

\* { ...p, currentPrice }: a new object for each product
Enrich(p) ==
  [f \in DOMAIN p \cup {"currentPrice"} |->
     IF f = "currentPrice" THEN CurrentPrice(p) ELSE p[f]]

\* GET /api/products, once the list is there: res.json(enriched)
ProductsResponse(list) ==
  Response("products", 200, [i \in 1..Len(list) |-> Enrich(list[i])])

\* list.find(p => p.id === productId): its index, 0 when there is none
FindProduct(list, productId) ==
  IF \E i \in 1..Len(list) : list[i].id = productId
  THEN CHOOSE i \in 1..Len(list) :
         /\ list[i].id = productId
         /\ \A j \in 1..(i - 1) : list[j].id # productId
  ELSE 0

\* const savings = qty > 1 ? (basePrice - unitPrice) * qty : 0
Savings(basePrice, unitPrice, qty) ==
  IF qty > 1 THEN DblMulInt(DblSub(basePrice, unitPrice), qty) ELSE DblZero

\* const basePrice = product.pricing?.[0]?.price || unitPrice
BasePrice(p, unitPrice) ==
  IF DblTruthy(p.pricing[1].price) THEN p.pricing[1].price ELSE unitPrice

\* res.json({ productId, quantity: qty, unitPrice, totalPrice, savings, pricingTier })
Quote(body, p, qty, unitPrice) ==
  Response("price", 200,
           [productId |-> body.productId,
            quantity |-> qty,
            unitPrice |-> unitPrice,
            totalPrice |-> DblMulInt(unitPrice, qty),
            savings |-> NumberToFixed2(Savings(BasePrice(p, unitPrice), unitPrice, qty)),
            pricingTier |-> FindTier(p.pricing, qty)])

\* const unitPrice = calculatePrice(product, qty), which may throw
Priced(body, p, qty, unit) ==
  IF unit.ok THEN Quote(body, p, qty, unit.value)
  ELSE Response("price", 0, [error |-> unit.error])

Clamped(body, p, qty) == Priced(body, p, qty, calculatePrice(p, Num(qty)))

\* if (!product) return res.status(404).json({ error: 'Product not found' })
Found(list, body, i) ==
  IF i = 0 THEN Response("price", 404, [error |-> "Product not found"])
  ELSE Clamped(body, list[i], ClampQuantity(body.quantity))

\* POST /api/calculate-price, after the productId check, once the list is there
CalculatePriceResponse(list, body) == Found(list, body, FindProduct(list, body.productId))

(***************************************************************************)
(* The handlers that reach the payment processor, the catalog table, the   *)
(* object store and the mockup generator.  A handler is one step: the      *)
(* services it awaits answer as the step's inputs say, and the response    *)
(* carries the calls the handler made, in order.   The catalog a handler    *)
(* gets is what getActiveProducts returns.                                  *)
(***************************************************************************)
\* a call of a service: stripe.checkout.sessions.create, stripe.tax.calculations.create,
\* airtable.find, airtable.update, s3.upload, generator, download, composite
Sent(to, with) == [to |-> to, with |-> with]

\* res.status(status).json(body) after the calls
Responded(kind, status, body, request, calls) ==
  [Response(kind, status, body) EXCEPT !.request = request, !.calls = calls]

\* a request value that is an array
ArrayOf(items) == [t |-> "array", items |-> items]

\* Array.isArray(v) && v.length, of a request value
NonEmptyArray(v) == v.t = "array" /\ v.items # << >>

\* !value, of a request value that is missing or a string
Falsy(value) == value.t = "undefined" \/ (value.t = "string" /\ value.s = << >>)

\* one entry of cart.map: the price_data of the item, or what it throws
LineItemOf(p, qty, unit) ==
  IF unit.ok
  THEN Returned([unit_amount |-> MathRound(DblMulInt(unit.value, 100)), quantity |-> qty,
                 name |-> p.id])
  ELSE unit

LineItemAt(activeProducts, item, i) ==
  IF i = 0 THEN Thrown(<< "Unknown product", item.productId >>)
  ELSE LineItemOf(activeProducts[i], ClampQuantity(item.quantity),
                  calculatePrice(activeProducts[i], Num(ClampQuantity(item.quantity))))

LineItem(activeProducts, item) ==
  LineItemAt(activeProducts, item, FindProduct(activeProducts, item.productId))

\* cart.map(...): the line items, or what the first failing item throws
LineItems(activeProducts, cart) ==
  IF \E i \in 1..Len(cart) : ~LineItem(activeProducts, cart[i]).ok
  THEN LineItem(activeProducts,
                cart[CHOOSE i \in 1..Len(cart) :
                       /\ ~LineItem(activeProducts, cart[i]).ok
                       /\ \A j \in 1..(i - 1) : LineItem(activeProducts, cart[j]).ok])
  ELSE Returned([i \in 1..Len(cart) |-> LineItem(activeProducts, cart[i]).value])

\* cart.reduce((sum, item) => sum + Math.round(unit * 100) * qty, 0), reached
\* only when every item has a line item
RECURSIVE SubtotalCents(_)
SubtotalCents(line_items) ==
  IF line_items = << >> THEN 0
  ELSE Head(line_items).unit_amount * Head(line_items).quantity
         + SubtotalCents(Tail(line_items))

\* a sessionConfig whose shipping is that of the sum of the unit amounts
SessionConfigOfUnits(line_items) ==
  [line_items |-> line_items,
   shipping_options |->
     shippingOptionsFor(SubtotalCents([i \in 1..Len(line_items) |->
                                         [line_items[i] EXCEPT !.quantity = 1]]),
                        Address(Str(<< "U", "S" >>)))]

\* the sessionConfig of the cart
SessionConfig(line_items) ==
  [line_items |-> line_items,
   shipping_options |-> shippingOptionsFor(SubtotalCents(line_items), Address(Str(<< "U", "S" >>)))]

\* await stripe.checkout.sessions.create(sessionConfig), then res.json, or the catch
CheckoutCreated(body, sessionConfig, session) ==
  IF session.ok
  THEN Responded("checkout", 200, [url |-> session.value], body,
                 << Sent("stripe.checkout.sessions.create", sessionConfig) >>)
  ELSE Responded("checkout", 500,
                 [error |-> "Failed to create payment link", details |-> session.error], body,
                 << Sent("stripe.checkout.sessions.create", sessionConfig) >>)

CheckoutOf(body, line_items, session) ==
  IF line_items.ok THEN CheckoutCreated(body, SessionConfig(line_items.value), session)
  ELSE Responded("checkout", 500,
                 [error |-> "Failed to create payment link", details |-> line_items.error],
                 body, << >>)

\* POST /api/create-checkout with the body, the catalog fetch ending with outcome
\* and the payment processor answering with session
CreateCheckoutResponse(stripe, body, outcome, session) ==
  IF ~stripe
  THEN Responded("checkout", 500, [error |-> "Missing STRIPE_SECRET_KEY in .env"], body, << >>)
  ELSE IF ~NonEmptyArray(body.products)
  THEN Responded("checkout", 400, [error |-> "Cart is empty"], body, << >>)
  ELSE CheckoutOf(body, LineItems(getActiveProducts(outcome).value, body.products.items),
                  session)

\* items.map(...): amount: Math.round(Number(item.unitPrice || 0) * 100)
TaxLineItems(items) ==
  [i \in 1..Len(items) |->
     [amount |-> MathRound(DblMulInt(items[i].unitPrice, 100)),
      quantity |-> items[i].quantity, reference |-> items[i].productId]]

\* await stripe.tax.calculations.create(...), then res.json, or the catch
TaxCalculated(body, line_items, calculation) ==
  IF calculation.ok
  THEN Responded("tax", 200,
                 [taxAmount |-> NumberToFixed2(DblOfCents(calculation.value))], body,
                 << Sent("stripe.tax.calculations.create", line_items) >>)
  ELSE Responded("tax", 500, [error |-> "Failed to calculate tax", taxAmount |-> DblZero], body,
                 << Sent("stripe.tax.calculations.create", line_items) >>)

\* POST /api/calculate-tax
CalculateTaxResponse(stripe, body, calculation) ==
  IF ~stripe
  THEN Responded("tax", 500, [error |-> "Missing STRIPE_SECRET_KEY"], body, << >>)
  ELSE IF Falsy(body.zip) \/ ~NonEmptyArray(body.items)
  THEN Responded("tax", 200, [taxAmount |-> DblZero], body, << >>)
  ELSE TaxCalculated(body, TaxLineItems(body.items.items), calculation)

\* await airtableUpdateFields(recordId, { boxes }), then res.json, or the catch
BoxesSaved(body, recordId, updated) ==
  IF updated.ok
  THEN Responded("boxes", 200, [ok |-> TRUE], body,
                 << Sent("airtable.find", body.id), Sent("airtable.update", recordId) >>)
  ELSE Responded("boxes", 500, [error |-> updated.error], body,
                 << Sent("airtable.find", body.id), Sent("airtable.update", recordId) >>)

\* await airtableFindRecordIdByProductId(productId): a record id, null, or the catch
BoxesFound(body, found, updated) ==
  IF ~found.ok
  THEN Responded("boxes", 500, [error |-> found.error], body, << Sent("airtable.find", body.id) >>)
  ELSE IF found.value = Nothing
  THEN Responded("boxes", 404, [error |-> "Airtable record not found for product_id"], body,
                 << Sent("airtable.find", body.id) >>)
  ELSE BoxesSaved(body, found.value[1], updated)

\* POST /api/products/:id/boxes
SaveBoxesResponse(token, body, found, updated) ==
  IF ~token
  THEN Responded("boxes", 500, [error |-> "Airtable not configured"], body, << >>)
  ELSE IF ~NonEmptyArray(body.boxes)
  THEN Responded("boxes", 400, [error |-> "boxes array required"], body, << >>)
  ELSE BoxesFound(body, found, updated)


\* what the services answer to one mockup request of src/server.js: the base
\* image is on disk or not, the placeholder upload, the generator's exit code,
\* whether its output parses, the record lookup and the record update
World(onDisk, placeholder, code, manifest, found, updated) ==
  [onDisk |-> onDisk, placeholder |-> placeholder, code |-> code, manifest |-> manifest,
   found |-> found, updated |-> updated]

\* if (fs.existsSync(localPath) && ...) { try { await uploadFileToS3(...) } catch { warn } }
PlaceholderCalls(p, world) ==
  IF world.onDisk THEN << Sent("s3.upload", p.imageFile) >> ELSE << >>

\* (placeholderBaseUrl, a public URL unless the upload gave one)
PlaceholderBaseUrl(p, world) ==
  IF world.onDisk /\ world.placeholder.ok THEN << "s3", p.imageFile >>
  ELSE << "public", p.imageFile >>

\* res.json({ ok: true, placeholder_base_url, mockup, manifest })
MockupDone(body, p, world, calls) ==
  Responded("mockup", 200,
            [ok |-> TRUE, placeholder_base_url |-> PlaceholderBaseUrl(p, world),
             mockup |-> world.manifest],
            body, calls)

\* the close callback after the manifest parsed: the lookup is awaited outside
\* any try, so its rejection ends the callback without a response (status 0);
\* the update is inside a try whose catch warns
MockupWrittenBack(body, p, world, calls) ==
  IF ~world.found.ok
  THEN Responded("mockup", 0, [error |-> world.found.error], body,
                 calls \o << Sent("airtable.find", body.id) >>)
  ELSE IF world.found.value = Nothing
  THEN MockupDone(body, p, world, calls \o << Sent("airtable.find", body.id) >>)
  ELSE MockupDone(body, p, world,
                  calls \o << Sent("airtable.find", body.id),
                     Sent("airtable.update", world.found.value[1]) >>)

\* py.on('close', async (code) => ...)
MockupClosed(body, p, world, calls) ==
  IF world.code # 0
  THEN Responded("mockup", 500, [error |-> << "mockup generation failed", world.code >>],
                 body, calls)
  ELSE IF world.manifest = Nothing
  THEN Responded("mockup", 500, [error |-> "Invalid manifest from generator"], body, calls)
  ELSE MockupWrittenBack(body, p, world, calls)

\* the placeholder upload, then spawn('python3', args)
MockupOf(body, p, world) ==
  MockupClosed(body, p, world,
               PlaceholderCalls(p, world) \o << Sent("generator", << body.id, body.email >>) >>)

MockupFound(body, list, i, world) ==
  IF i = 0
  THEN Responded("mockup", 404, [error |-> "Product not found"], body, << >>)
  ELSE MockupOf(body, list[i], world)

\* POST /api/products/:id/mockup of src/server.js
MockupResponse(body, outcome, world) ==
  IF Falsy(body.email) \/ Falsy(body.logoUrl)
  THEN Responded("mockup", 400, [error |-> "email and logoUrl required"], body, << >>)
  ELSE MockupFound(body, getActiveProducts(outcome).value,
                   FindProduct(getActiveProducts(outcome).value, body.id), world)

\* what the services answer to one mockup request of src/unnamed/part_002: the
\* base image is on disk or not, the logo download, the compositor, the upload
\* of the composite, the record lookup and the record update
World_part002(onDisk, logo, composed, uploaded, found, updated) ==
  [onDisk |-> onDisk, logo |-> logo, composed |-> composed, uploaded |-> uploaded,
   found |-> found, updated |-> updated]

\* the catch of the handler
MockupFailed(body, err, calls) ==
  Responded("mockup (part_002)", 500, [error |-> "mockup-failed", detail |-> err], body, calls)

\* pushMockupUrlToAirtable inside try { } catch (_) { }: the calls it makes
PushCalls(airtable, body, world) ==
  IF ~airtable THEN << >>
  ELSE IF ~world.found.ok \/ world.found.value = Nothing
  THEN << Sent("airtable.find", body.id) >>
  ELSE << Sent("airtable.find", body.id), Sent("airtable.update", world.found.value[1]) >>

\* res.json({ ok: true, uploaded: !!publicUrl, url: publicUrl || null, key })
MockupSent(body, p, uploaded, calls) ==
  Responded("mockup (part_002)", 200,
            [ok |-> TRUE, uploaded |-> uploaded,
             url |-> IF uploaded THEN Some(p.imageFile) ELSE Nothing,
             key |-> << emailToS3Folder(IF Falsy(body.email)
                                        THEN Str(<< "d", "@", "e" >>) ELSE body.email),
                        p.imageFile >>],
            body, calls)

\* if (s3Ready()) { await uploadBuffer(...) }; if (publicUrl) { try { push } catch {} }
MockupStored(s3Ready, airtable, body, p, world, calls) ==
  IF ~s3Ready THEN MockupSent(body, p, FALSE, calls)
  ELSE IF ~world.uploaded.ok
  THEN MockupFailed(body, world.uploaded.error, calls \o << Sent("s3.upload", p.imageFile) >>)
  ELSE MockupSent(body, p, TRUE,
                  calls \o << Sent("s3.upload", p.imageFile) >>
                        \o PushCalls(airtable, body, world))

\* await downloadToBuffer(logoUrl); await composeMockup(basePath, logoBuf, product)
MockupComposed(s3Ready, airtable, body, p, world) ==
  IF ~world.logo.ok
  THEN MockupFailed(body, world.logo.error, << Sent("download", body.logoUrl) >>)
  ELSE IF ~world.composed.ok
  THEN MockupFailed(body, world.composed.error,
                    << Sent("download", body.logoUrl), Sent("composite", p.imageFile) >>)
  ELSE MockupStored(s3Ready, airtable, body, p, world,
                    << Sent("download", body.logoUrl), Sent("composite", p.imageFile) >>)

MockupFound_part002(s3Ready, airtable, body, prods, i, world) ==
  IF i = 0
  THEN Responded("mockup (part_002)", 404, [error |-> "Product not found"], body, << >>)
  ELSE IF ~world.onDisk
  THEN Responded("mockup (part_002)", 404,
                 [error |-> << "Base image not found on server", prods[i].imageFile >>],
                 body, << >>)
  ELSE MockupComposed(s3Ready, airtable, body, prods[i], world)

\* POST /api/products/:productId/mockup of src/unnamed/part_002; the route's
\* productId is never empty
MockupResponse_part002(s3Ready, airtable, body, outcome, world) ==
  IF Falsy(body.logoUrl)
  THEN Responded("mockup (part_002)", 400, [error |-> "Missing productId or logoUrl"], body, << >>)
  ELSE MockupFound_part002(s3Ready, airtable, body, ProductsOrFallback(outcome).value,
                           FindProduct(ProductsOrFallback(outcome).value, body.id), world)

\* a failure of a service that was called
ServiceErrors == { "Request failed with status code 503" }

Outcomes(values) == { Returned(v) : v \in values } \cup { Thrown(e) : e \in ServiceErrors }

\* airtableFindRecordIdByProductId: the table holds a record for PRODA alone
FoundOutcomes(productId) ==
  Outcomes(IF productId = "PRODA" THEN { Some("recA") } ELSE { Nothing })

(***************************************************************************)
(* The catalog fetch of a handler, and the reload.                         *)
(***************************************************************************)
\* /403/.test(String(e)) ? ' (check PAT scopes & base access)' : ''
Hint(message) ==
  IF message = "Request failed with status code 403"
  THEN " (check PAT scopes & base access)" ELSE ""

Remove(seq, i) == SubSeq(seq, 1, i - 1) \o SubSeq(seq, i + 1, Len(seq))

Waiting(kind, bodies) ==
  [kind |-> kind, now |-> now, records |-> << >>, pages |-> 0, bodies |-> bodies]

\* what a handler got: the list, how, now, and when the fetch that obtained it began
Got(list, startedAt, outcome, how) ==
  [how |-> IF outcome.ok THEN how ELSE "fallback",
   list |-> list,
   at |-> now,
   began |-> IF ~outcome.ok THEN now ELSE IF how = "hit" THEN cacheBegan ELSE startedAt]

\* an answer that the handler never asks for is left at one value
Asked(w) ==
  /\ w.onDisk \/ w.placeholder.ok
  /\ w.code = 0 \/ w.manifest = Nothing
  /\ (w.code = 0 /\ w.manifest # Nothing) \/ ~w.found.ok
  /\ (w.found.ok /\ w.found.value # Nothing) \/ w.updated.ok

\* what the services may answer to a mockup request of src/server.js
Worlds(productId) ==
  { w \in { World(onDisk, placeholder, code, manifest, found, updated) :
              onDisk \in BOOLEAN, placeholder \in Outcomes({ "url" }), code \in { 0, 1 },
              manifest \in { Nothing, Some("png_urls") }, found \in FoundOutcomes(productId),
              updated \in Outcomes({ "recA" }) } : Asked(w) }

\* what the services that a handler awaits after the catalog may answer
ServiceAnswers(kind, body) ==
  IF kind = "checkout" THEN Outcomes({ "https://checkout" })
  ELSE IF kind = "mockup" THEN Worlds(body.id)
  ELSE { Returned("no service") }

\* the response of a handler that asked for the catalog, once the list is
\* there and the services it awaits after it have answered
HandlerResponse(kind, list, body, answer) ==
  IF kind = "checkout" THEN CreateCheckoutResponse(TRUE, body, Returned(list), answer)
  ELSE IF kind = "mockup" THEN MockupResponse(body, Returned(list), answer)
  ELSE CalculatePriceResponse(list, body)

\* the rest of the handler, once getActiveProducts (or the try of GET
\* /api/products) has ended with list
Answer(kind, bodies, list, got) ==
  IF ~list.ok
  THEN response' = Response(kind, 0, [error |-> list.error])
  ELSE IF kind = "products"
  THEN response' = [ProductsResponse(list.value) EXCEPT !.got = got]
  ELSE \E body \in bodies : \E answer \in ServiceAnswers(kind, body) :
         response' = [HandlerResponse(kind, list.value, body, answer)
                        EXCEPT !.got = got, !.request = body]

Gotten(kind, bodies, list, startedAt, outcome, how) ==
  Answer(kind, bodies, list, Got(IF list.ok THEN list.value ELSE << >>, startedAt, outcome, how))

\* an end that stores the fetched list but leaves the expiry of a populated cache
FinishLazyKeepingExpiry(kind, bodies, startedAt, outcome, how) ==
  /\ IF outcome.ok /\ how = "fresh"
     THEN /\ cache' = [products |-> Some(outcome.value),
                       expiresAt |-> IF cache.products # Nothing THEN cache.expiresAt
                                     ELSE startedAt + TTL]
          /\ cacheBegan' = startedAt
     ELSE UNCHANGED << cache, cacheBegan >>
  /\ Gotten(kind, bodies,
            IF kind = "products" THEN ProductsOrFallback(outcome)
            ELSE getActiveProducts(outcome),
            startedAt, outcome, how)

\* an end whose hit renews the expiry
FinishLazySliding(kind, bodies, startedAt, outcome, how) ==
  /\ IF outcome.ok /\ how = "fresh"
     THEN /\ cache' = [products |-> Some(outcome.value), expiresAt |-> startedAt + TTL]
          /\ cacheBegan' = startedAt
     ELSE /\ cache' = IF how = "hit" THEN [cache EXCEPT !.expiresAt = now + TTL] ELSE cache
          /\ UNCHANGED cacheBegan
  /\ Gotten(kind, bodies,
            IF kind = "products" THEN ProductsOrFallback(outcome)
            ELSE getActiveProducts(outcome),
            startedAt, outcome, how)

\* the end of fetchProductsFromAirtableCached begun at startedAt ("fresh": after a
\* fetch, which fills the cache when it succeeded; "hit": without one, with the
\* cached list), and of the handler that awaited it
FinishLazy(kind, bodies, startedAt, outcome, how) ==
  /\ IF outcome.ok /\ how = "fresh"
     THEN /\ cache' = [products |-> Some(outcome.value), expiresAt |-> startedAt + TTL]
          /\ cacheBegan' = startedAt
     ELSE UNCHANGED << cache, cacheBegan >>
  /\ Gotten(kind, bodies,
            IF kind = "products" THEN ProductsOrFallback(outcome)
            ELSE getActiveProducts(outcome),
            startedAt, outcome, how)

\* the start of fetchProductsFromAirtableCached: a hit returns the cached list;
\* otherwise the first page is requested, which throws at once without credentials
StartLazy(kind, bodies) ==
  IF CacheHit(now)
  THEN /\ FinishLazy(kind, bodies, now, Returned(cache.products[1]), "hit")
       /\ UNCHANGED inflight
  ELSE IF ~configured
  THEN /\ FinishLazy(kind, bodies, now,
                     Thrown("Missing AIRTABLE_PAT or AIRTABLE_BASE_ID"), "fresh")
       /\ UNCHANGED inflight
  ELSE /\ Len(inflight) < MaxReq
       /\ inflight' = Append(inflight, Waiting(kind, bodies))
       /\ UNCHANGED << cache, cacheBegan, response >>

\* GET /api/products
GetProducts ==
  /\ StartLazy("products", { })
  /\ UNCHANGED << now, configured, env, pricingVars, call >>

\* POST /api/calculate-price with a body out of bodies: 400 without a productId,
\* else getActiveProducts.  The body is not read again before the list is there;
\* the model draws it then.
CalculatePrice(bodies) ==
  /\ \E hasProductId \in BOOLEAN :
       IF hasProductId
       THEN StartLazy("price", bodies)
       ELSE /\ response' = Response("price", 400, [error |-> "productId required"])
            /\ UNCHANGED << cache, cacheBegan, inflight >>
  /\ UNCHANGED << now, configured, env, pricingVars, call >>

\* what the reload got from fetchProductsFromAirtableRaw
Reloaded(outcome) ==
  [NoList EXCEPT !.how = IF outcome.ok THEN "reload" ELSE "failed",
                 !.list = IF outcome.ok THEN outcome.value ELSE << >>]

\* a reload that falls back as the lazy path does: the failure is answered with
\* the count of the static catalog
FinishReloadQuietly(startedAt, outcome) ==
  IF outcome.ok
  THEN /\ cache' = [products |-> Some(outcome.value), expiresAt |-> now + TTL]
       /\ cacheBegan' = startedAt
       /\ response' = [Response("reload", 200, [ok |-> TRUE, count |-> Len(outcome.value)])
                         EXCEPT !.got = Reloaded(outcome)]
  ELSE /\ response' = [Response("reload", 200, [ok |-> TRUE, count |-> Len(PRODUCTS)])
                         EXCEPT !.got = Reloaded(outcome)]
       /\ UNCHANGED << cache, cacheBegan >>

\* the end of POST /api/admin/reload-products, begun at startedAt
FinishReload(startedAt, outcome) ==
  IF outcome.ok
  THEN /\ cache' = [products |-> Some(outcome.value), expiresAt |-> now + TTL]
       /\ cacheBegan' = startedAt
       /\ response' = [Response("reload", 200, [ok |-> TRUE, count |-> Len(outcome.value)])
                         EXCEPT !.got = Reloaded(outcome)]
  ELSE /\ response' = [Response("reload", 500,
                                [error |-> << outcome.error, Hint(outcome.error) >>])
                         EXCEPT !.got = Reloaded(outcome)]
       /\ UNCHANGED << cache, cacheBegan >>

\* POST /api/admin/reload-products
ReloadProducts ==
  /\ IF ~configured
     THEN /\ FinishReload(now, Thrown("Missing AIRTABLE_PAT or AIRTABLE_BASE_ID"))
          /\ UNCHANGED inflight
     ELSE /\ Len(inflight) < MaxReq
          /\ inflight' = Append(inflight, Waiting("reload", { }))
          /\ UNCHANGED << cache, cacheBegan, response >>
  /\ UNCHANGED << now, configured, env, pricingVars, call >>

\* fetchProductsFromAirtableRaw of the i-th request in flight ends with outcome
Finish(i, outcome) ==
  /\ inflight' = Remove(inflight, i)
  /\ IF inflight[i].kind = "reload"
     THEN FinishReload(inflight[i].now, outcome)
     ELSE FinishLazy(inflight[i].kind, inflight[i].bodies, inflight[i].now, outcome, "fresh")

\* a page of records arrives: fetchProductsFromAirtableRaw asks for the next one
\* while the page carries an offset, else normalizes what it has
PageArrives(i) ==
  /\ \E page \in Pages :
       LET records == inflight[i].records \o page.records
       IN IF page.offset # Nothing
          THEN /\ inflight[i].pages + 1 < MaxPages
               /\ inflight' = [inflight EXCEPT ![i].records = records, ![i].pages = @ + 1]
               /\ UNCHANGED << cache, cacheBegan, response >>
          ELSE Finish(i, NormalizeRecords(records))
  /\ UNCHANGED << now, configured, env, pricingVars, call >>

\* a page request fails: axios rejects, and fetchProductsFromAirtableRaw with it
PageFails(i) ==
  /\ \E message \in UpstreamErrors : Finish(i, Thrown(message))
  /\ UNCHANGED << now, configured, env, pricingVars, call >>

\* carts of the requests that share the cache
FrameCarts == { ArrayOf(<< >>), ArrayOf(<< [productId |-> "PRODA", quantity |-> Num(10)] >>) }

\* POST /api/create-checkout: 500 without the Stripe client, 400 without a
\* cart, else getActiveProducts
CreateCheckout ==
  /\ \E cart \in FrameCarts :
       IF ~env.stripe \/ ~NonEmptyArray(cart)
       THEN /\ response' = CreateCheckoutResponse(env.stripe, [products |-> cart],
                                                  Thrown("not fetched"), Thrown("not called"))
            /\ UNCHANGED << cache, cacheBegan, inflight >>
       ELSE StartLazy("checkout", { [products |-> cart] })
  /\ UNCHANGED << now, configured, env, pricingVars, call >>

FrameMockups ==
  { [id |-> "PRODA", email |-> email, logoUrl |-> Str(<< "u" >>)] :
      email \in { Missing, Str(<< "a", "@", "b" >>) } }

\* POST /api/products/:id/mockup: 400 without email or logoUrl, else
\* getActiveProducts
Mockup ==
  /\ \E body \in FrameMockups :
       IF Falsy(body.email) \/ Falsy(body.logoUrl)
       THEN /\ response' = Responded("mockup", 400, [error |-> "email and logoUrl required"],
                                     body, << >>)
            /\ UNCHANGED << cache, cacheBegan, inflight >>
       ELSE StartLazy("mockup", { body })
  /\ UNCHANGED << now, configured, env, pricingVars, call >>

\* a boxes handler that also patches the product of the cached list
SaveBoxesThroughCache ==
  /\ \E found \in FoundOutcomes("PRODA"), updated \in Outcomes({ "recA" }) :
       /\ response' = SaveBoxesResponse(configured,
                                        [id |-> "PRODA", boxes |-> ArrayOf(<< Box(1, 1, 3, 2) >>)],
                                        found, updated)
       /\ cache' = IF response'.status = 200 /\ cache.products # Nothing
                   THEN [cache EXCEPT !.products[1] =
                           [i \in 1..Len(@) |->
                              IF @[i].id = "PRODA"
                              THEN [@[i] EXCEPT !.boxes = << Box(1, 1, 3, 2) >>] ELSE @[i]]]
                   ELSE cache
  /\ UNCHANGED << now, configured, env, cacheBegan, inflight, pricingVars, call >>

\* POST /api/products/:id/boxes, which writes to the table and not to the cache
SaveBoxes ==
  /\ \E found \in FoundOutcomes("PRODA"), updated \in Outcomes({ "recA" }) :
       response' = SaveBoxesResponse(configured,
                                     [id |-> "PRODA", boxes |-> ArrayOf(<< Box(1, 1, 3, 2) >>)],
                                     found, updated)
  /\ UNCHANGED << now, configured, env, cache, cacheBegan, inflight, pricingVars, call >>

Tick ==
  /\ now < MaxTime
  /\ now' = now + 1
  /\ UNCHANGED << configured, env, cache, cacheBegan, inflight, response, pricingVars, call >>

\* the request body of the pricing scenario
ScenarioBodies == { [productId |-> "PROD001", quantity |-> Num(75)] }

Next ==
  \/ Tick
  \/ GetProducts
  \/ CalculatePrice(ScenarioBodies)
  \/ ReloadProducts
  \/ \E i \in 1..Len(inflight) : PageArrives(i)
  \/ \E i \in 1..Len(inflight) : PageFails(i)

Spec == Init /\ [][Next]_vars

\* every handler that shares the cache, within one tick of the clock (the
\* refreshes after an expiry are those of Spec)
NextFrame ==
  \/ GetProducts
  \/ CalculatePrice(ScenarioBodies)
  \/ CreateCheckout
  \/ Mockup
  \/ SaveBoxes
  \/ ReloadProducts
  \/ \E i \in 1..Len(inflight) : PageArrives(i)
  \/ \E i \in 1..Len(inflight) : PageFails(i)

SpecFrame == Init /\ [][NextFrame]_vars

(***************************************************************************)
(* POST /api/calculate-price alone, over every request body.               *)
(***************************************************************************)
ProductIdInputs == { "PROD001", "PRODA", "PRODB", "PROD404" }

QuantityInputs ==
  { Missing, Num(0), Num(-3), Num(1), Num(2), Num(75),
    Str(<< "a", "b" >>), Str(<< "1", "2", "a" >>) }

PriceBodies == [productId : ProductIdInputs, quantity : QuantityInputs]

NextQuote ==
  \/ CalculatePrice(PriceBodies)
  \/ \E i \in 1..Len(inflight) : PageArrives(i)
  \/ \E i \in 1..Len(inflight) : PageFails(i)

SpecQuote == Init /\ [][NextQuote]_vars

(***************************************************************************)
(* calculatePrice alone, over the products a catalog can hold: whatever    *)
(* the normalizer makes of a row that passes the filter, and the entries   *)
(* of the static fallback.                                                 *)
(***************************************************************************)
\* tiers of one pricing list
MaxTiers == 2

\* the largest quantity a tier names
MaxQty == 3

PriceCents == { 800, 1000 }

TierInputs ==
  { Tier(lo, hi, c) : lo \in 1..MaxQty,
                      hi \in { Nothing } \cup { Some(n) : n \in 1..MaxQty },
                      c \in PriceCents }

TierListInputs == UNION { [1..n -> TierInputs] : n \in 0..MaxTiers }

PricingJsonInputs ==
  { Absent, Text("not json"), JsonText(JsonNull) }
    \cup { JsonText(JsonArray(tiers)) : tiers \in TierListInputs }

CatalogProducts ==
  { r \in { mapAirtableRecordToProduct(Record("recX", Text("PRODX"), Text("x.png"), json)) :
              json \in PricingJsonInputs } : KeepRow(r) }
    \cup { PRODUCTS[i] : i \in 1..Len(PRODUCTS) }

QuantityArguments ==
  { Missing } \cup { Num(n) : n \in -1..(MaxQty + 1) }
    \cup { Str(<< "a" >>), Str(<< "2", "a" >>), Str(<< "-", "2" >>) }

InitPrice ==
  /\ ServerInit
  /\ configured
  /\ env = FullEnv
  /\ product \in CatalogProducts
  /\ quantity = Missing
  /\ result = NoResult

\* a call calculatePrice(product, q)
CallCalculatePrice ==
  /\ \E q \in QuantityArguments :
       /\ quantity' = q
       /\ result' = calculatePrice(product, q)
  /\ UNCHANGED << serverVars, product, call >>

NextPrice == CallCalculatePrice

SpecPrice == InitPrice /\ [][NextPrice]_vars

(***************************************************************************)
(* Properties of calculatePrice (under SpecPrice).                         *)
(***************************************************************************)
\* calculatePrice has been called with quantity and has ended with result
Called == result # NoResult

\* the quantity argument is an integer q >= 1
IntegerFrom1(q) == q.t = "number" /\ q.v >= 1

\* tiers sorted ascending by minQty, non-overlapping, the last maxQty = null
WellFormed(pricing) ==
  /\ pricing # << >>
  /\ pricing[Len(pricing)].maxQty = Nothing
  /\ \A i \in 1..(Len(pricing) - 1) :
       /\ pricing[i].maxQty # Nothing
       /\ pricing[i].minQty <= pricing[i].maxQty[1]
       /\ pricing[i].maxQty[1] < pricing[i + 1].minQty

\* each tier begins right after the one before it
GapFree(pricing) ==
  \A i \in 1..(Len(pricing) - 1) : pricing[i].maxQty[1] + 1 = pricing[i + 1].minQty

\* no tier is dearer than the one before it
NonIncreasing(pricing) ==
  \A i \in 1..(Len(pricing) - 1) : DblGeq(pricing[i].price, pricing[i + 1].price)

\* q >= minQty and (maxQty = null or q <= maxQty)
Satisfies(tier, q) == q >= tier.minQty /\ (tier.maxQty = Nothing \/ q <= tier.maxQty[1])

Satisfying(pricing, q) == { i \in 1..Len(pricing) : Satisfies(pricing[i], q) }

\* C1, as the spec states it: for a well-formed tier list and an integer
\* quantity q >= 1, exactly one tier satisfies q >= minQty and (maxQty = null or
\* q <= maxQty), and calculatePrice returns the price of that tier.
ExactlyOneTier ==
  (Called /\ WellFormed(product.pricing) /\ IntegerFrom1(quantity)) =>
    /\ Cardinality(Satisfying(product.pricing, quantity.v)) = 1
    /\ \A i \in Satisfying(product.pricing, quantity.v) :
         result = Returned(product.pricing[i].price)

\* C1, as the code has it: for a well-formed tier list and an integer quantity
\* q >= 1, at most one tier satisfies the condition; calculatePrice returns the
\* price of that tier when there is one, else the price of the first tier; and
\* there is exactly one when the tiers are gap-free and the first begins at 1.
AtMostOneTier ==
  (Called /\ WellFormed(product.pricing) /\ IntegerFrom1(quantity)) =>
    /\ Cardinality(Satisfying(product.pricing, quantity.v)) <= 1
    /\ \A i \in Satisfying(product.pricing, quantity.v) :
         result = Returned(product.pricing[i].price)
    /\ Satisfying(product.pricing, quantity.v) = { } =>
         result = Returned(product.pricing[1].price)
    /\ (GapFree(product.pricing) /\ product.pricing[1].minQty = 1) =>
         Satisfying(product.pricing, quantity.v) # { }

\* C1: a quantity in the second of two tiers has been priced at that tier's price
SecondTierPriced ==
  /\ Called /\ WellFormed(product.pricing) /\ IntegerFrom1(quantity)
  /\ Len(product.pricing) = 2
  /\ Satisfying(product.pricing, quantity.v) = { 2 }
  /\ result = Returned(product.pricing[2].price)

\* C2, as the spec states it: for every well-formed tier list and all integer
\* quantities 1 <= q1 <= q2, calculatePrice(product, q1) >= calculatePrice(product,
\* q2).  Two calls that follow each other are compared.
BulkDiscount ==
  [][(/\ WellFormed(product.pricing)
      /\ Called /\ IntegerFrom1(quantity) /\ IntegerFrom1(quantity')
      /\ quantity.v <= quantity'.v
      /\ result.ok /\ result'.ok)
       => DblGeq(result.value, result'.value)]_vars

\* C2, as the code has it: the unit price is non-increasing in the quantity for
\* the well-formed tier lists that are gap-free and whose tier prices are
\* non-increasing in list order; calculatePrice itself compares no prices.
BulkDiscountOfDiscountingTiers ==
  [][(/\ WellFormed(product.pricing)
      /\ GapFree(product.pricing) /\ NonIncreasing(product.pricing)
      /\ Called /\ IntegerFrom1(quantity) /\ IntegerFrom1(quantity')
      /\ quantity.v <= quantity'.v
      /\ result.ok /\ result'.ok)
       => DblGeq(result.value, result'.value)]_vars

\* C2: a quantity past the first tier has been priced below the first tier's price
DiscountGiven ==
  /\ Called /\ WellFormed(product.pricing) /\ IntegerFrom1(quantity)
  /\ Len(product.pricing) >= 2
  /\ GapFree(product.pricing) /\ NonIncreasing(product.pricing)
  /\ quantity.v > product.pricing[1].maxQty[1]
  /\ result.ok
  /\ DblCmp(result.value, product.pricing[1].price) < 0

\* C4, as the spec states it: for every product of the catalog and every
\* quantity, when no tier matches the clamped quantity, calculatePrice returns
\* the price of the first tier; it does not fail.
FallsBackToFirstTier ==
  (Called /\ Satisfying(product.pricing, ClampQuantity(quantity)) = { }) =>
    /\ result.ok
    /\ product.pricing # << >>
    /\ result = Returned(product.pricing[1].price)

(***************************************************************************)
(* Properties of POST /api/calculate-price (under SpecQuote).              *)
(***************************************************************************)
\* a 200 answer to a calculate-price request
Quoted(r) == r.kind = "price" /\ r.status = 200

\* the product the request named, in the list the handler got
RequestedProduct(r) == r.got.list[FindProduct(r.got.list, r.request.productId)]

AllDigits(s) == s # << >> /\ \A i \in 1..Len(s) : IsDigit(s[i])

\* the string is a decimal numeral
IsNumeral(s) ==
  \/ AllDigits(s)
  \/ Len(s) > 1 /\ (Head(s) = "-" \/ Head(s) = "+") /\ AllDigits(Tail(s))

\* q is 0, negative, missing or non-numeric
ZeroNegativeMissingOrNonNumeric(q) ==
  \/ q.t = "undefined"
  \/ q.t = "number" /\ q.v <= 0
  \/ q.t = "string" /\ ~IsNumeral(q.s)

\* C3, as the spec states it: with a quantity that is 0, negative, missing or
\* non-numeric, POST /api/calculate-price reports quantity 1 and the unit price
\* calculatePrice(product, 1).
QuantityClamping ==
  (Quoted(response) /\ ZeroNegativeMissingOrNonNumeric(response.request.quantity)) =>
    /\ response.body.quantity = 1
    /\ Returned(response.body.unitPrice) = calculatePrice(RequestedProduct(response), Num(1))

\* the amount x in cents, to the nearest cent
Cents(x) == DblSign(x) * NatOfBig(HundredthsHalfUp(x))

\* C5, as the spec states it: a 200 answer for quantity q has, at cent
\* precision, totalPrice = unitPrice * q and savings = (firstTierPrice -
\* unitPrice) * q when q > 1, else 0; for the tiers 1-9: 29.99, 10-49: 26.99,
\* 50-99: 23.99, 100+: 19.99 and q = 75 it has unitPrice 2399, totalPrice 179925
\* and savings 45000 cents.
QuoteArithmetic ==
  Quoted(response) =>
    /\ Cents(response.body.totalPrice)
         = Cents(response.body.unitPrice) * response.body.quantity
    /\ Cents(response.body.savings)
         = IF response.body.quantity > 1
           THEN (Cents(RequestedProduct(response).pricing[1].price)
                   - Cents(response.body.unitPrice)) * response.body.quantity
           ELSE 0
    /\ (/\ RequestedProduct(response) = PRODUCTS[1]
        /\ response.request.quantity = Num(75)) =>
         /\ Cents(response.body.unitPrice) = 2399
         /\ Cents(response.body.totalPrice) = 179925
         /\ Cents(response.body.savings) = 45000

(***************************************************************************)
(* Properties of the catalog cache and its handlers (under Spec).          *)
(***************************************************************************)
\* a response sent by this step
Sends(kind) == response' # response /\ response'.kind = kind

\* C6: getActiveProducts never fails: whatever the fetch and the cache, the
\* calculate-price handler that called it goes on with a list, which is the
\* cached list on a hit, the list just fetched and stored after a successful
\* fetch, and PRODUCTS after a failed one.
GetActiveProductsNeverFails ==
  [][(Sends("price") /\ response'.status # 400) =>
       /\ response'.got.how \in { "hit", "fresh", "fallback" }
       /\ response'.got.how = "hit" =>
            CacheHit(now) /\ cache.products = Some(response'.got.list) /\ cache' = cache
       /\ response'.got.how = "fresh" => cache'.products = Some(response'.got.list)
       /\ response'.got.how = "fallback" => response'.got.list = PRODUCTS /\ cache' = cache]_vars

\* C6: a calculate-price request whose fetch failed has been answered from PRODUCTS
QuotedFromFallback ==
  /\ Quoted(response)
  /\ response.got.how = "fallback"
  /\ response.got.list = PRODUCTS

\* a response that carries what getProducts returned
Lists(r) == r.kind \in { "products", "price" } /\ r.got.how \in { "hit", "fresh", "fallback" }

\* C7, as the spec states it: two getProducts calls that complete within one
\* time-to-live window, with no admin reload between them, return the identical
\* list.  Two answers that follow each other, no reload answered between them,
\* are compared.
SameListWithinWindow ==
  [][(/\ Lists(response) /\ Lists(response')
      /\ response' # response
      /\ response'.got.at - response.got.at < TTL)
       => response'.got.list = response.got.list]_vars

\* C8, as the spec states it: a list answered from the cache was obtained by a
\* fetch that began no more than the time to live before it is served.
ServedWithinTTL ==
  (Lists(response) /\ response.got.how = "hit") =>
    response.got.at - response.got.began <= TTL

FailureMessages ==
  UpstreamErrors
    \cup { "No valid products from Airtable", "Missing AIRTABLE_PAT or AIRTABLE_BASE_ID" }

\* C9: a reload whose fetch failed answers 500 with the failure message and
\* leaves the cache as it was; one whose fetch succeeded replaces the cache with
\* the fetched list, expiring a time to live from now, and answers ok with the
\* number of records.
ReloadSurfacesFailures ==
  [][Sends("reload") =>
       IF response'.got.how = "failed"
       THEN /\ response'.status = 500
            /\ response'.body.error[1] \in FailureMessages
            /\ response'.body.error[2] = Hint(response'.body.error[1])
            /\ cache' = cache
       ELSE /\ response'.status = 200
            /\ response'.body = [ok |-> TRUE, count |-> Len(response'.got.list)]
            /\ cache' = [products |-> Some(response'.got.list), expiresAt |-> now + TTL]]_vars

\* C9: a reload has failed on a populated cache, which still holds its list
ReloadFailedOnPopulatedCache ==
  /\ response.kind = "reload"
  /\ response.status = 500
  /\ cache.products # Nothing

FallbackIds ==
  << "PROD001", "PROD002", "PROD003", "PROD004", "PROD005", "PROD006", "PROD007",
     "PROD008", "PROD009", "PROD010", "PROD011", "PROD012", "PROD013", "PROD014",
     "PROD015", "PROD016", "PROD017", "PROD018", "PROD019", "PROD020" >>

\* C10, as the spec states it: when the fetch throws and the cache is empty or
\* expired, GET /api/products answers 200 with the static catalog of 20
\* products, PROD001 to PROD020.
FallbackCatalogOf20 ==
  (response.kind = "products" /\ response.got.how = "fallback") =>
    /\ response.status = 200
    /\ Len(response.body) = Len(FallbackIds)
    /\ \A i \in 1..Len(response.body) : response.body[i].id = FallbackIds[i]

(***************************************************************************)
(* The functions of the catalog loader, called on their own (SpecCalls).   *)
(***************************************************************************)
\* a call of fn as the file src has it
Call(fn, src, arg, out) == [fn |-> fn, src |-> src, arg |-> arg, out |-> out]

PricingFieldInputs ==
  { Absent, Text(""), NumberField, Text("not json"), JsonText(JsonNull),
    JsonText(JsonNumber(5)), JsonText(JsonObject(JsonUndefined)),
    JsonText(JsonArray(TiersA)) }

BoxesFieldInputs ==
  { Absent, Text(""), NumberField, Text("not json"), JsonText(JsonNull),
    JsonText(JsonNumber(5)), JsonText(JsonObject(JsonUndefined)),
    JsonText(JsonObject(JsonArray(<< Box(1, 1, 3, 2) >>))) }

RecordInputs ==
  { [Record(id, productId, image, pricing) EXCEPT !.fields.boxes = boxes] :
      id \in { "recX" }, productId \in { Absent, Text("PRODX") },
      image \in { Text("x.png") }, pricing \in PricingFieldInputs,
      boxes \in BoxesFieldInputs }

CallMapAirtableRecordToProduct ==
  /\ call = NoCall
  /\ \E rec \in RecordInputs :
       \/ call' = Call("mapAirtableRecordToProduct", "src/server.js", rec,
                       Returned(mapAirtableRecordToProduct(rec)))
       \/ call' = Call("mapAirtableRecordToProduct", "src/unnamed/part_002", rec,
                       mapAirtableRecordToProduct_part002(rec))
  /\ UNCHANGED << serverVars, pricingVars >>

\* records of the upstream table, well and badly filled
RowInputs ==
  { RecordA, RecordB, RecordNoImage,
    Record("recD", Text("PRODD"), Text("d.png"), Text("not json")),
    Record("recE", Text("PRODE"), Text("e.png"), JsonText(JsonObject(JsonUndefined))),
    Record("", Absent, Text("f.png"), JsonText(JsonArray(TiersA))) }

\* records gathered by one fetch
MaxRows == 2

\* the page loop of fetchProductsFromAirtableRaw has gathered records; the
\* function ends with what it makes of them
CallFetchProductsFromAirtableRaw ==
  /\ call = NoCall
  /\ \E n \in 0..MaxRows : \E records \in [1..n -> RowInputs] :
       call' = Call("fetchProductsFromAirtableRaw", "src/server.js", records,
                    NormalizeRecords(records))
  /\ UNCHANGED << serverVars, pricingVars >>

\* characters of an email given by a client
EmailChars == { "a", "B", "@", ".", "/", " " }

\* the length of the longest email tried
MaxEmail == 3

EmailInputs == { Missing } \cup { Str(t) : t \in UNION { [1..n -> EmailChars] : n \in 0..MaxEmail } }

\* characters of the text that emailToS3Folder puts in the place of an @
MarkChars == { "_", "a", "t", "@" }

\* the length of the longest email spelled with these
MaxMarked == 4

MarkedEmailInputs == { Str(t) : t \in UNION { [1..n -> MarkChars] : n \in 1..MaxMarked } }

CallEmailToS3Folder ==
  /\ call = NoCall
  /\ \E email \in EmailInputs \cup MarkedEmailInputs :
       call' = Call("emailToS3Folder", "src/server.js", email, emailToS3Folder(email))
  /\ UNCHANGED << serverVars, pricingVars >>

CallCompanyDomainFromEmail ==
  /\ call = NoCall
  /\ \E email \in EmailInputs :
       call' = Call("companyDomainFromEmail", "src/unnamed/part_001", email,
                    companyDomainFromEmail(email))
  /\ UNCHANGED << serverVars, pricingVars >>

SubtotalInputs == { 0, 5000, 9500, 9999, 10000, 10001, 15000, 1000000 }

AddressInputs ==
  { Missing, Address(Missing) }
    \cup { Address(Str(c)) : c \in { << >>, << "U", "S" >>, << "u", "s" >>, << "U", "s" >>,
                                     << "C", "A" >>, << "c", "a" >>, << "M", "X" >>,
                                     << "U", "S", "A" >>, << "U" >> } }

CallShippingOptionsFor ==
  /\ call = NoCall
  /\ \E subtotalCents \in SubtotalInputs, shippingAddress \in AddressInputs :
       call' = Call("shippingOptionsFor", "src/server.js",
                    << subtotalCents, shippingAddress >>,
                    shippingOptionsFor(subtotalCents, shippingAddress))
  /\ UNCHANGED << serverVars, pricingVars >>

\* the largest width and height of a base image
MaxDim == 4

\* boxes with 0 <= x1 <= x2 <= 1 and 0 <= y1 <= y2 <= 1, in quarters
BoxInputs ==
  { Box(x1, y1, x2, y2) : x1 \in 0..4, y1 \in 0..4, x2 \in 0..4, y2 \in { 1, 4 } }

CallComposeMockup ==
  /\ call = NoCall
  /\ \E width \in 1..MaxDim, height \in 1..MaxDim :
       \E boxes \in { << >> } \cup { << b >> : b \in { c \in BoxInputs : c.x1 <= c.x2 /\ c.y1 <= c.y2 } } :
         call' = Call("composeMockup", "src/unnamed/part_002",
                      << width, height, boxes >>, composeMockup(width, height, boxes))
  /\ UNCHANGED << serverVars, pricingVars >>

\* placements in pixels, degenerate ones among them
CallRenderComposite ==
  /\ call = NoCall
  /\ \E width \in 1..MaxDim, height \in 1..MaxDim :
       \E px \in { c \in BoxInputs : c.x1 <= c.x2 /\ c.y1 <= c.y2 } :
         call' = Call("render", "src/unnamed/part_001", << width, height, px >>,
                      RenderComposite(width, height, px))
  /\ UNCHANGED << serverVars, pricingVars >>

NextCalls ==
  \/ CallMapAirtableRecordToProduct
  \/ CallFetchProductsFromAirtableRaw
  \/ CallEmailToS3Folder
  \/ CallCompanyDomainFromEmail
  \/ CallShippingOptionsFor
  \/ CallComposeMockup
  \/ CallRenderComposite

\* one call from the state after construction
InitCalls == ServerInit /\ configured /\ env = FullEnv /\ PricingIdle

SpecCalls == InitCalls /\ [][NextCalls]_vars

(***************************************************************************)
(* Properties of the functions called on their own (under SpecCalls).      *)
(***************************************************************************)
\* the field is a string that holds a JSON list
HoldsList(field) == field.t = "string" /\ field.json # Nothing /\ IsArray(field.json[1])

\* the field is a string that holds a JSON object with a list of boxes
HoldsBoxes(field) ==
  /\ field.t = "string" /\ field.json # Nothing
  /\ field.json[1].k = "object" /\ IsArray(field.json[1].boxes)

\* the record has an identifier, an image filename and a list for its pricing
Wanted(rec) ==
  /\ mapAirtableRecordToProduct(rec).id # ""
  /\ mapAirtableRecordToProduct(rec).imageFile # ""
  /\ HoldsList(rec.fields.pricing_json)

RECURSIVE WantedRows(_)
WantedRows(records) ==
  IF records = << >> THEN << >>
  ELSE (IF Wanted(Head(records)) THEN << mapAirtableRecordToProduct(Head(records)) >>
        ELSE << >>) \o WantedRows(Tail(records))

\* C11, as the spec states it: the list a successful fetchProductsFromAirtableRaw
\* returns holds, in upstream order, exactly the normalized records that have an
\* identifier, an image filename and a pricing value that is a tier list; a
\* record with malformed pricing is absent from it.  (The weakest reading of
\* well-formed is taken: the pricing field holds a list.)
RecordFilter ==
  (call.fn = "fetchProductsFromAirtableRaw" /\ call.out.ok) =>
    call.out.value = WantedRows(call.arg)

\* the empty list, as the revision of the file represents a list
EmptyList(src) == IF src = "src/server.js" THEN << >> ELSE JsonArray(<< >>)

\* C12, as the spec states it: for a record whose pricing_json or boxes field is
\* absent, empty, not a string, not valid JSON, or JSON of another shape,
\* mapAirtableRecordToProduct returns pricing = [] and boxes = [] respectively
\* and never raises.
NormalizerTolerance ==
  call.fn = "mapAirtableRecordToProduct" =>
    /\ call.out.ok
    /\ ~HoldsList(call.arg.fields.pricing_json) =>
         call.out.value.pricing = EmptyList(call.src)
    /\ ~HoldsBoxes(call.arg.fields.boxes) =>
         call.out.value.boxes = EmptyList(call.src)

\* the destination is the United States, or names no country
Domestic(address) ==
  \/ address.t = "undefined"
  \/ address.country.t = "undefined"
  \/ address.country.s \in { << >>, << "U", "S" >>, << "u", "s" >>, << "U", "s" >>, << "u", "S" >> }

\* C13: shippingOptionsFor returns two options, standard first and express
\* second; domestic: standard 1000 cents below a subtotal of 10000 and 0 from
\* 10000 on, express 2500; elsewhere standard 2500 and express 5000, whatever the
\* subtotal.  So 9500 gives 1000 and 15000 gives 0.
ShippingOptions ==
  call.fn = "shippingOptionsFor" =>
    /\ Len(call.out) = 2
    /\ call.out[1].display_name \in { "Standard", "Standard (Free over $100)", "Standard (Intl.)" }
    /\ call.out[2].display_name \in { "Express", "Express (Intl.)" }
    /\ call.out[1].amount
         = IF ~Domestic(call.arg[2]) THEN 2500 ELSE IF call.arg[1] < 10000 THEN 1000 ELSE 0
    /\ call.out[2].amount = IF Domestic(call.arg[2]) THEN 2500 ELSE 5000

\* C13: a domestic order of exactly 10000 cents ships free by standard
FreeStandardAtThreshold ==
  /\ call.fn = "shippingOptionsFor"
  /\ call.arg[1] = 10000 /\ Domestic(call.arg[2])
  /\ call.out[1].amount = 0

\* C19, as the spec states it: for every base size and every box with
\* 0 <= x1 < x2 <= 1 and 0 <= y1 < y2 <= 1, and for the default rectangle, the
\* rectangle composeMockup computes lies within the base, and the output keeps
\* the base's size.
CompositingBounds ==
  (/\ call.fn = "composeMockup" /\ call.out.ok
   /\ call.arg[3] # << >> => /\ call.arg[3][1].x1 < call.arg[3][1].x2
                             /\ call.arg[3][1].y1 < call.arg[3][1].y2) =>
    /\ call.out.value.rect.x >= 0 /\ call.out.value.rect.y >= 0
    /\ call.out.value.rect.x + call.out.value.rect.w <= call.arg[1]
    /\ call.out.value.rect.y + call.out.value.rect.h <= call.arg[2]
    /\ call.out.value.width = call.arg[1] /\ call.out.value.height = call.arg[2]

\* the target rectangle of the call has no width or no height: the corners of
\* the box coincide, or what composeMockup rounds them to does
Degenerate(c) ==
  IF c.fn = "render"
  THEN c.arg[3].x2 = c.arg[3].x1 \/ c.arg[3].y2 = c.arg[3].y1
  ELSE /\ c.arg[3] # << >>
       /\ \/ ComposeRect(c.arg[1], c.arg[2], c.arg[3]).w = 0
          \/ ComposeRect(c.arg[1], c.arg[2], c.arg[3]).h = 0

\* C18, as the spec states it: with a target rectangle of zero width or zero
\* height the compositor fails; it never produces a composite from it.
DegeneratePlacement ==
  (call.fn \in { "composeMockup", "render" } /\ Degenerate(call)) => ~call.out.ok

\* no '/', no '..', no '@', no white space and no upper-case letter
SafeSegment(s) ==
  /\ \A i \in 1..Len(s) :
       /\ s[i] \notin { "/", "@", " " }
       /\ \A j \in 1..Len(UpperCase) : s[i] # UpperCase[j]
  /\ \A i \in 1..(Len(s) - 1) : ~(s[i] = "." /\ s[i + 1] = ".")

\* C20, as the spec states it: the folder of emailToS3Folder and the domain of
\* companyDomainFromEmail are each one safe path segment, for every string given
\* as email.
PathSafety ==
  call.fn \in { "emailToS3Folder", "companyDomainFromEmail" } => SafeSegment(call.out)


(***************************************************************************)
(* One request to one of these handlers, over request bodies and over the  *)
(* answers of the services.                                                *)
(***************************************************************************)
\* what fetchProductsFromAirtableCached ends with: a list of the table or a
\* failure of the upstream, and without credentials always the failure
CatalogOutcomes ==
  IF configured
  THEN { NormalizeRecords(<< RecordA, RecordB >>), Thrown("timeout of 15000ms exceeded") }
  ELSE { Thrown("Missing AIRTABLE_PAT or AIRTABLE_BASE_ID") }

OrderIds == { "PRODA", "PROD001", "PROD404" }

\* items of a cart
MaxCart == 2

CartItems == [productId : OrderIds, quantity : { Missing, Num(10) }]

CartInputs ==
  { Missing, Str(<< "a" >>) } \cup { ArrayOf(c) : c \in UNION { [1..n -> CartItems] : n \in 0..MaxCart } }

\* the response r, with what the catalog fetch and the services had to answer
Facing(r, catalog, services) ==
  [r EXCEPT !.world = [catalog |-> catalog, services |-> services]]

PostCalculatePrice ==
  /\ response = NoResponse
  /\ \E body \in [productId : OrderIds \cup { "" }, quantity : { Missing, Num(10) }] :
       \E outcome \in CatalogOutcomes :
         response' =
           Facing(IF body.productId = ""
                  THEN Responded("price", 400, [error |-> "productId required"], body, << >>)
                  ELSE [CalculatePriceResponse(getActiveProducts(outcome).value, body)
                          EXCEPT !.request = body],
                  outcome, << >>)
  /\ UNCHANGED << now, configured, env, cache, cacheBegan, inflight, pricingVars, call >>

PostCreateCheckout ==
  /\ response = NoResponse
  /\ \E cart \in CartInputs, outcome \in CatalogOutcomes, session \in Outcomes({ "https://checkout" }) :
       response' = Facing(CreateCheckoutResponse(env.stripe, [products |-> cart], outcome, session),
                          outcome, [stripe |-> env.stripe, session |-> session])
  /\ UNCHANGED << now, configured, env, cache, cacheBegan, inflight, pricingVars, call >>

TaxItems ==
  { Missing, Str(<< "a" >>), ArrayOf(<< >>),
    ArrayOf(<< [productId |-> "PRODA", quantity |-> 2, unitPrice |-> DblOfCents(1999)] >>) }

PostCalculateTax ==
  /\ response = NoResponse
  /\ \E zip \in { Missing, Str(<< >>), Str(<< "2", "7" >>) }, items \in TaxItems :
       \E calculation \in Outcomes({ 0, 725 }) :
         response' = Facing(CalculateTaxResponse(env.stripe, [zip |-> zip, items |-> items],
                                                 calculation),
                            << >>, [stripe |-> env.stripe, calculation |-> calculation])
  /\ UNCHANGED << now, configured, env, cache, cacheBegan, inflight, pricingVars, call >>

\* AIRTABLE.token is there whenever the token and the base id both are
PostBoxes ==
  /\ response = NoResponse
  /\ \E token \in BOOLEAN, id \in OrderIds :
       \E boxes \in { Missing, Str(<< "a" >>), ArrayOf(<< >>), ArrayOf(<< Box(1, 1, 3, 2) >>) } :
         \E found \in FoundOutcomes(id), updated \in Outcomes({ "recA" }) :
           /\ configured => token
           /\ response' = Facing(SaveBoxesResponse(token, [id |-> id, boxes |-> boxes],
                                                    found, updated),
                                  << >>, [token |-> token, found |-> found, updated |-> updated])
  /\ UNCHANGED << now, configured, env, cache, cacheBegan, inflight, pricingVars, call >>

MockupBodies ==
  [id : OrderIds, email : { Missing, Str(<< "a", "@", "b" >>) },
   logoUrl : { Missing, Str(<< "u" >>) }]

PostMockup ==
  /\ response = NoResponse
  /\ \E body \in MockupBodies, outcome \in CatalogOutcomes :
       \E onDisk \in BOOLEAN, placeholder \in Outcomes({ "url" }), code \in { 0, 1 } :
         \E manifest \in { Nothing, Some("png_urls") } :
           \E found \in FoundOutcomes(body.id), updated \in Outcomes({ "recA" }) :
             response' = Facing(MockupResponse(body, outcome,
                                  World(onDisk, placeholder, code, manifest, found, updated)),
                                outcome,
                                World(onDisk, placeholder, code, manifest, found, updated))
  /\ UNCHANGED << now, configured, env, cache, cacheBegan, inflight, pricingVars, call >>

PostMockup_part002 ==
  /\ response = NoResponse
  /\ \E body \in MockupBodies, outcome \in CatalogOutcomes :
       \E onDisk \in BOOLEAN, logo \in Outcomes({ "logo" }), composed \in Outcomes({ "png" }) :
         \E uploaded \in Outcomes({ "etag" }) :
           \E found \in FoundOutcomes(body.id), updated \in Outcomes({ "recA" }) :
             response' = Facing(MockupResponse_part002(env.s3Ready, configured, body, outcome,
                                  World_part002(onDisk, logo, composed, uploaded, found, updated)),
                                outcome,
                                World_part002(onDisk, logo, composed, uploaded, found, updated))
  /\ UNCHANGED << now, configured, env, cache, cacheBegan, inflight, pricingVars, call >>

NextOrders ==
  \/ PostCalculatePrice
  \/ PostCreateCheckout
  \/ PostCalculateTax
  \/ PostBoxes
  \/ PostMockup
  \/ PostMockup_part002

InitOrders == ServerInit /\ PricingIdle /\ env \in [stripe : BOOLEAN, s3Ready : BOOLEAN]

SpecOrders == InitOrders /\ [][NextOrders]_vars


(***************************************************************************)
(* Properties of these handlers (under SpecOrders).                        *)
(***************************************************************************)
\* the calls of r that pay, generate or write to the catalog
Effects(r) ==
  { i \in 1..Len(r.calls) :
      r.calls[i].to \in { "stripe.checkout.sessions.create", "stripe.tax.calculations.create",
                          "generator", "composite", "airtable.update" } }

InCart(r, productId) ==
  \E i \in 1..Len(r.request.products.items) : r.request.products.items[i].productId = productId

\* the handler of r looked up PROD404, which neither the table nor the static
\* catalog holds, and the lookup did not fail
AsksForUnknown(r) ==
  \/ r.kind = "price" /\ r.request.productId = "PROD404"
  \/ /\ r.kind = "checkout"
     /\ r.world.services.stripe
     /\ NonEmptyArray(r.request.products)
     /\ InCart(r, "PROD404")
  \/ /\ r.kind = "mockup"
     /\ ~Falsy(r.request.email)
     /\ ~Falsy(r.request.logoUrl)
     /\ r.request.id = "PROD404"
  \/ /\ r.kind = "boxes"
     /\ r.world.services.token
     /\ NonEmptyArray(r.request.boxes)
     /\ r.request.id = "PROD404"
     /\ r.world.services.found.ok

\* C14: a request for an unknown product or record (calculate-price,
\* create-checkout for any cart item, mockup, boxes) is answered with status
\* 404, and nothing is paid, generated or written to the catalog for it.
NotFoundIs404 ==
  AsksForUnknown(response) => response.status = 404 /\ Effects(response) = { }

\* the request of r lacks a required field, or its cart is missing, not an
\* array or empty
LacksRequired(r) ==
  \/ r.kind = "price" /\ r.request.productId = ""
  \/ r.kind = "tax" /\ (Falsy(r.request.zip) \/ ~NonEmptyArray(r.request.items))
  \/ r.kind = "mockup" /\ (Falsy(r.request.email) \/ Falsy(r.request.logoUrl))
  \/ r.kind = "boxes" /\ ~NonEmptyArray(r.request.boxes)
  \/ r.kind = "checkout" /\ ~NonEmptyArray(r.request.products)

\* C15: a request that lacks a required field, or whose cart is missing, not
\* an array or empty, is answered with status 400 whatever services are
\* configured, and no service is called for it.
InvalidInputIs400 ==
  LacksRequired(response) => response.status = 400 /\ response.calls = << >>

\* the handler of r found the product of a well-formed mockup request
MockupBegun(r) ==
  /\ r.kind \in { "mockup", "mockup (part_002)" }
  /\ ~Falsy(r.request.logoUrl)
  /\ (r.kind = "mockup" => ~Falsy(r.request.email))
  /\ FindProduct(getActiveProducts(r.world.catalog).value, r.request.id) # 0

\* the mockup of r has been produced: the generator exited 0 with a manifest
\* that parses, or the composite was uploaded
MockupProduced(r) ==
  /\ MockupBegun(r)
  /\ IF r.kind = "mockup"
     THEN r.world.services.code = 0 /\ r.world.services.manifest # Nothing
     ELSE /\ r.world.services.onDisk
          /\ r.world.services.logo.ok
          /\ r.world.services.composed.ok
          /\ \E i \in 1..Len(r.calls) : r.calls[i].to = "s3.upload"
          /\ r.world.services.uploaded.ok

\* the lookup of the catalog record failed, or the update of the record found
WriteBackFailed(r) ==
  \/ ~r.world.services.found.ok
  \/ r.world.services.found.value # Nothing /\ ~r.world.services.updated.ok

\* C16: once the mockup has been produced, a failure of the catalog
\* write-back (the record lookup or the record update) does not fail the
\* request: the client receives the success response.
BestEffortWriteBack ==
  MockupProduced(response) /\ WriteBackFailed(response) => response.status = 200

\* nothing composited, generated, stored or written back
NothingProduced(r) ==
  \A i \in 1..Len(r.calls) :
    r.calls[i].to \notin { "generator", "composite", "s3.upload", "airtable.update" }

\* the image file of the product that the handler of r found
ImageFileOf(r) ==
  getActiveProducts(r.world.catalog).value[
    FindProduct(getActiveProducts(r.world.catalog).value, r.request.id)].imageFile

\* the base image of the product is not on disk
BaseMissing(r) == MockupBegun(r) /\ ~r.world.services.onDisk

\* the logo could not be downloaded, or the compositor could not decode it
LogoUnavailable(r) ==
  /\ MockupBegun(r)
  /\ r.kind = "mockup (part_002)"
  /\ r.world.services.onDisk
  /\ (~r.world.services.logo.ok \/ ~r.world.services.composed.ok)

AnswersAssetMissing(r) ==
  /\ r.status = 404
  /\ r.body.error = << "Base image not found on server", ImageFileOf(r) >>
  /\ NothingProduced(r)

AnswersLogoUnavailable(r) ==
  /\ r.status = 400
  /\ \A i \in 1..Len(r.calls) : r.calls[i].to \notin { "s3.upload", "airtable.update" }

\* C17: a mockup request whose base image is missing on disk fails with status
\* 404 naming the image file, one whose logo cannot be downloaded or decoded
\* fails with status 400; in both cases nothing is composited or stored and
\* nothing is written back.
MockupFailureMapping ==
  /\ BaseMissing(response) => AnswersAssetMissing(response)
  /\ LogoUnavailable(response) => AnswersLogoUnavailable(response)


(***************************************************************************)
(* Properties of the cache under concurrent requests (under Spec).         *)
(***************************************************************************)
\* the list that the i-th request in flight ends with when page is its last
FetchedBy(i, page) == NormalizeRecords(inflight[i].records \o page.records)

\* this step is the end of the i-th refresh in flight, with page as its last
\* page: the cache holds the list fetched by it and the expiry computed by it
\* (from its start for a lazy refresh, from now for a reload)
WrittenBy(i, page) ==
  /\ page.offset = Nothing
  /\ FetchedBy(i, page).ok
  /\ inflight' = Remove(inflight, i)
  /\ cacheBegan' = inflight[i].now
  /\ cache' = [products |-> Some(FetchedBy(i, page).value),
               expiresAt |-> (IF inflight[i].kind = "reload" THEN now ELSE inflight[i].now) + TTL]

\* a complete list of records that passed the filter
ValidList(list) == list # << >> /\ \A j \in 1..Len(list) : KeepRow(list[j])

\* C22: concurrent refreshes are redundant, not harmful: every getProducts
\* call returns a complete valid list, and whenever the cache changes it holds
\* the list and the expiry written by one single refresh, the one that ends.
ConsistentCachePair ==
  [][/\ cache' # cache => \E i \in 1..Len(inflight) : \E page \in Pages : WrittenBy(i, page)
     /\ (response' # response /\ Lists(response')) => ValidList(response'.got.list)]_vars

\* C22: the cache has been written by one refresh while another lazy refresh,
\* begun before that write, is still in flight
RedundantRefreshInFlight ==
  /\ cache.products # Nothing
  /\ \E i \in 1..Len(inflight) :
       /\ inflight[i].kind # "reload"
       /\ cacheBegan <= inflight[i].now
       /\ inflight[i].now < cache.expiresAt

\* a call of fetchProductsFromAirtableCached made and answered in this step
CalledAndAnswered == response' # response /\ Lists(response') /\ inflight' = inflight

\* C23: on a populated cache with now < expiresAt, a call of
\* fetchProductsFromAirtableCached returns the cached list, requests nothing
\* from the upstream and leaves the list and the expiry of the cache as they are.
CacheHitFrame ==
  [][(cache.products # Nothing /\ now < cache.expiresAt) =>
       /\ CalledAndAnswered =>
            /\ response'.got.how = "hit"
            /\ response'.got.list = cache.products[1]
            /\ cache' = cache
       /\ Len(inflight') > Len(inflight) => inflight'[Len(inflight')].kind = "reload"]_vars

\* C23: a list has been answered from the cache after the time of the fetch
\* that filled it
HitAfterAWhile ==
  /\ Lists(response)
  /\ response.got.how = "hit"
  /\ response.got.at > response.got.began

\* C25: the cache is unpopulated (no list, expiry 0) or holds a non-empty list
\* of records that passed the filter and an expiry above 0; a fetch that
\* leaves no valid record is a failure and is not stored.
CacheWellFormed ==
  \/ cache = EmptyCache
  \/ /\ cache.products # Nothing
     /\ ValidList(cache.products[1])
     /\ cache.expiresAt > 0

\* C25: a reload whose fetch left no valid record has failed, the cache still
\* unpopulated
EmptyFetchNotStored ==
  /\ response.kind = "reload"
  /\ response.status = 500
  /\ response.body.error[1] = "No valid products from Airtable"
  /\ cache = EmptyCache

\* C26: once the cache holds the result of a fetch that started at time t it
\* never afterwards holds the result of a fetch that started before t, and the
\* expiry of the cache never decreases.
NoFreshnessRegression ==
  [][cacheBegan' >= cacheBegan /\ cache'.expiresAt >= cache.expiresAt]_vars


(***************************************************************************)
(* The frame of the cache (under SpecFrame).                               *)
(***************************************************************************)
\* this step is the end of a refresh that succeeded, whose list the cache holds
RefreshEnds ==
  \E i \in 1..Len(inflight) : \E page \in Pages :
    /\ page.offset = Nothing
    /\ FetchedBy(i, page).ok
    /\ inflight' = Remove(inflight, i)
    /\ cache'.products = Some(FetchedBy(i, page).value)

\* this step is the end of a refresh that failed
RefreshFails ==
  /\ Len(inflight') < Len(inflight)
  /\ response'.got.how \in { "fallback", "failed" }

\* C27: the cache changes only at the end of a successful lazy refresh or
\* admin reload; a failed refresh and every other handler (GET /api/products,
\* calculate-price, create-checkout, boxes, mockup) leave the list and the expiry as they are,
\* so that saved boxes are not in the cached list before the next refresh.
CacheFrame ==
  [][/\ cache' # cache => RefreshEnds
     /\ RefreshFails => cache' = cache
     /\ Len(inflight') >= Len(inflight) => cache' = cache]_vars

\* C27: boxes have been saved for PRODA while the cache holds a list, whose
\* PRODA has none
BoxesSavedBesideCache ==
  /\ response.kind = "boxes"
  /\ response.status = 200
  /\ cache.products # Nothing
  /\ \A j \in 1..Len(cache.products[1]) : cache.products[1][j].boxes = << >>


(***************************************************************************)
(* Further properties of the handlers of SpecOrders.                       *)
(***************************************************************************)
\* C28: every POST /api/products/:id/mockup request receives one response,
\* whatever the placeholder upload, the generator and the record lookup and
\* update answer (status 0 stands for a handler that ended without sending one).
ExactlyOneResponse ==
  response.kind = "mockup" => response.status # 0


\* the calls of r, by their place, that sent a payload to the payment processor
Payloads(r) == { i \in 1..Len(r.calls) : r.calls[i].to = "stripe.checkout.sessions.create" }

\* the product of the catalog that the handler of r got, for the cart item
ProductFor(r, item) == FindProduct(getActiveProducts(r.world.catalog).value, item.productId)

\* the line item that the cart item must give
ExpectedLine(r, item, line) ==
  /\ ProductFor(r, item) # 0
  /\ line.quantity = ClampQuantity(item.quantity)
  /\ calculatePrice(getActiveProducts(r.world.catalog).value[ProductFor(r, item)],
                    Num(line.quantity)).ok
  /\ line.unit_amount =
       MathRound(DblMulInt(
         calculatePrice(getActiveProducts(r.world.catalog).value[ProductFor(r, item)],
                        Num(line.quantity)).value, 100))

\* the sum of unit_amount * quantity over the first n line items
RECURSIVE TotalCents(_, _)
TotalCents(line_items, n) ==
  IF n = 0 THEN 0
  ELSE TotalCents(line_items, n - 1) + line_items[n].unit_amount * line_items[n].quantity

\* the domestic pair of a subtotal
DomesticPair(subtotalCents, options) ==
  /\ Len(options) = 2
  /\ options[1].amount = IF subtotalCents < 10000 THEN 1000 ELSE 0
  /\ options[2] = Option("Express", 2500)
  /\ options = shippingOptionsFor(subtotalCents, Address(Str(<< "U", "S" >>)))

ConsistentPayload(r, config) ==
  /\ NonEmptyArray(r.request.products)
  /\ Len(config.line_items) = Len(r.request.products.items)
  /\ \A i \in 1..Len(config.line_items) :
       ExpectedLine(r, r.request.products.items[i], config.line_items[i])
  /\ DomesticPair(TotalCents(config.line_items, Len(config.line_items)),
                  config.shipping_options)

\* C29: every payload that POST /api/create-checkout sends to the payment
\* processor has, for each cart item, the clamped quantity and unit_amount =
\* round(100 * calculatePrice(product, quantity)), and as shipping options the
\* domestic pair of the sum of unit_amount * quantity; the processor is called
\* at most once, and only when every cart item is a known product.
CheckoutPayloadConsistent ==
  response.kind = "checkout" =>
    /\ Cardinality(Payloads(response)) <= 1
    /\ \A i \in Payloads(response) : ConsistentPayload(response, response.calls[i].with)

\* C29: a cart of two items has been sent to the payment processor, with free
\* standard shipping for its subtotal of 100 dollars or more
FreeShippingCheckoutSent ==
  /\ response.kind = "checkout"
  /\ \E i \in Payloads(response) :
       /\ Len(response.calls[i].with.line_items) = 2
       /\ response.calls[i].with.shipping_options[1].amount = 0


(***************************************************************************)
(* Further properties of the functions of SpecCalls.                       *)
(***************************************************************************)
\* the email as written, lower-cased
Normalized(email) == toLowerCase(OrEmpty(email))

\* C30: emailToS3Folder is injective on case-normalized emails: two emails
\* that differ after lower-casing never have the same folder.
CustomerIsolation ==
  call.fn = "emailToS3Folder" =>
    \A other \in EmailInputs \cup MarkedEmailInputs :
      Normalized(other) # Normalized(call.arg) => emailToS3Folder(other) # call.out


(***************************************************************************)
(* The page loop of fetchProductsFromAirtableRaw on its own: the requests  *)
(* it sends, with their offset parameter, and the pages it receives.       *)
(***************************************************************************)
\* pages that the upstream may ever serve to one fetch
MaxFetchPages == 3

\* the offset of a page: none, an empty one, or a token
OffsetInputs == { Nothing, Some(""), Some("itr/1"), Some("itr/2") }

PageInputs ==
  { Page(records, offset) :
      records \in { << >>, << RecordA >>, << RecordB >>, << RecordNoImage >> },
      offset \in OffsetInputs }

\* offset, as a condition: undefined and '' are falsy
HasOffset(offset) == offset # Nothing /\ offset # Some("")

\* the fetch: the offset parameter of each request sent (Nothing for a request
\* without one), the pages received, and how it stands
Fetching(requests, pages, ended, out) ==
  [fn |-> "fetchProductsFromAirtableRaw (pages)", src |-> "src/server.js",
   arg |-> requests, pages |-> pages, ended |-> ended, out |-> out]

\* records = records.concat(page.records || []), over the pages received
RECURSIVE Concatenated(_)
Concatenated(pages) ==
  IF pages = << >> THEN << >>
  ELSE Concatenated(SubSeq(pages, 1, Len(pages) - 1)) \o pages[Len(pages)].records

\* fetchProductsFromAirtableRaw is called: fetchAirtablePage(undefined) throws
\* without credentials, else sends the first request, which has no offset
FetchBegins ==
  /\ call = NoCall
  /\ call' = IF configured
             THEN Fetching(<< Nothing >>, << >>, "pending", Thrown("pending"))
             ELSE Fetching(<< >>, << >>, "failed",
                           Thrown("Missing AIRTABLE_PAT or AIRTABLE_BASE_ID"))
  /\ UNCHANGED << serverVars, pricingVars >>

\* a loop that asks for every page as it asked for the first
FetchPageArrivesFromTheStart ==
  /\ call.fn = "fetchProductsFromAirtableRaw (pages)"
  /\ call.ended = "pending"
  /\ \E page \in PageInputs :
       IF HasOffset(page.offset)
       THEN /\ Len(call.pages) + 1 < MaxFetchPages
            /\ call' = [call EXCEPT !.pages = Append(@, page),
                                    !.arg = Append(@, Nothing)]
       ELSE call' = [call EXCEPT !.pages = Append(@, page), !.ended = "done",
                                 !.out = NormalizeRecords(Concatenated(Append(call.pages, page)))]
  /\ UNCHANGED << serverVars, pricingVars >>

\* a page arrives: while (offset) asks for the next page with page.offset, else
\* the records gathered are normalized
FetchPageArrives ==
  /\ call.fn = "fetchProductsFromAirtableRaw (pages)"
  /\ call.ended = "pending"
  /\ \E page \in PageInputs :
       IF HasOffset(page.offset)
       THEN /\ Len(call.pages) + 1 < MaxFetchPages
            /\ call' = [call EXCEPT !.pages = Append(@, page),
                                    !.arg = Append(@, page.offset)]
       ELSE call' = [call EXCEPT !.pages = Append(@, page), !.ended = "done",
                                 !.out = NormalizeRecords(Concatenated(Append(call.pages, page)))]
  /\ UNCHANGED << serverVars, pricingVars >>

\* a page request fails: axios rejects, and the fetch with it
FetchPageFails ==
  /\ call.fn = "fetchProductsFromAirtableRaw (pages)"
  /\ call.ended = "pending"
  /\ \E message \in UpstreamErrors :
       call' = [call EXCEPT !.ended = "failed", !.out = Thrown(message)]
  /\ UNCHANGED << serverVars, pricingVars >>

NextPages ==
  \/ FetchBegins
  \/ FetchPageArrives
  \/ FetchPageFails

SpecPages == Init /\ [][NextPages]_vars

\* the upstream answers every request, and ends the listing within MaxFetchPages
FairPages == SpecPages /\ WF_vars(FetchPageArrives \/ FetchPageFails)

\* the requests and the pages so far follow the protocol
FollowsTokens(f) ==
  /\ f.arg # << >> => f.arg[1] = Nothing
  /\ \A k \in 2..Len(f.arg) : HasOffset(f.pages[k - 1].offset) /\ f.arg[k] = f.pages[k - 1].offset
  /\ \A k \in 1..Len(f.pages) : HasOffset(f.pages[k].offset) => k < Len(f.arg)

\* how the fetch stands agrees with what it received
EndsRight(f) ==
  /\ f.ended = "pending" => Len(f.arg) = Len(f.pages) + 1
  /\ f.ended = "done" =>
       /\ Len(f.arg) = Len(f.pages)
       /\ ~HasOffset(f.pages[Len(f.pages)].offset)
       /\ \A k \in 1..(Len(f.pages) - 1) : HasOffset(f.pages[k].offset)
       /\ f.out = NormalizeRecords(Concatenated(f.pages))
  /\ f.ended = "failed" => ~f.out.ok /\ f.out.error # "No valid products from Airtable"

\* the fetch has returned or thrown
FetchEnded ==
  /\ call.fn = "fetchProductsFromAirtableRaw (pages)"
  /\ call.ended # "pending"

\* C24: fetchProductsFromAirtableRaw asks for the first page without an
\* offset and for each following page with the offset of the page before,
\* stops after the first page without one and normalizes the records of all
\* pages in page order; a failed page request fails the fetch without a list;
\* and the fetch ends once the upstream ends the listing.
PaginationProtocol ==
  /\ [](call.fn = "fetchProductsFromAirtableRaw (pages)" =>
          FollowsTokens(call) /\ EndsRight(call))
  /\ (call.fn = "fetchProductsFromAirtableRaw (pages)") ~> FetchEnded

\* C24: a fetch has ended with the list of the records of three pages
FetchedOverPages ==
  /\ call.fn = "fetchProductsFromAirtableRaw (pages)"
  /\ call.ended = "done"
  /\ Len(call.pages) = 3
  /\ call.out.ok
  /\ Len(call.out.value) = 3


(***************************************************************************)
(* Two requests to the mockup handler of src/unnamed/part_002 for one      *)
(* customer and one product, step by step: each await of the handler is a  *)
(* point where the other request may run.                                  *)
(***************************************************************************)
\* the logo of each of the two requests
RaceLogos == << Str(<< "u" >>), Str(<< "v" >>) >>

NotCalled == Thrown("not called")

\* a request at its await: the body, what fetchProductsFromAirtableCached
\* ended with, what the services answered so far, and the response sent
Racer(body) ==
  [kind |-> "mockup (part_002)", pc |-> "find", body |-> body, outcome |-> NotCalled,
   world |-> World_part002(FALSE, NotCalled, NotCalled, NotCalled, NotCalled, NotCalled),
   response |-> NoResponse]

\* the bucket: the PutObject commands it received, oldest first, and the object
\* it holds under each key
S3Store(puts, objects) ==
  [fn |-> "s3.send(PutObjectCommand)", src |-> "src/s3.js", arg |-> puts, out |-> objects]

\* a bucket that keeps the object a key already has
PutObjectIfAbsent(objects, key, body) ==
  IF \E j \in 1..Len(objects) : objects[j].key = key
  THEN objects
  ELSE Append(objects, [key |-> key, body |-> body])

\* PutObjectCommand({ Bucket, Key, Body }): the object under Key is replaced
PutObject(objects, key, body) ==
  IF \E j \in 1..Len(objects) : objects[j].key = key
  THEN [j \in 1..Len(objects) |->
          IF objects[j].key = key THEN [key |-> key, body |-> body] ELSE objects[j]]
  ELSE Append(objects, [key |-> key, body |-> body])

\* (prods || []).find(p => p.id === productId), as an index of the list
RacerIndex(r) == FindProduct(ProductsOrFallback(r.outcome).value, r.body.id)

RacerProduct(r) == ProductsOrFallback(r.outcome).value[RacerIndex(r)]

\* `${emailToS3Folder(email || 'default@example.com')}/mockups/${fileName}`
RacerKey(r) ==
  << emailToS3Folder(IF Falsy(r.body.email) THEN Str(<< "d", "@", "e" >>) ELSE r.body.email),
     RacerProduct(r).imageFile >>

\* the composite of a base image and a logo
Composite(r) == << RacerProduct(r).imageFile, r.world.logo.value >>

RaceInit ==
  /\ now = 0
  /\ configured \in BOOLEAN
  /\ env \in [stripe : { TRUE }, s3Ready : BOOLEAN]
  /\ cache = EmptyCache
  /\ cacheBegan = 0
  /\ response = NoResponse
  /\ call = S3Store(<< >>, << >>)
  /\ PricingIdle
  /\ \E id \in { "PRODA", "PROD001" }, email \in { Missing, Str(<< "a", "@", "b" >>) } :
       inflight = [i \in 1..Len(RaceLogos) |->
                     Racer([id |-> id, email |-> email, logoUrl |-> RaceLogos[i]])]

\* the request i moves on with r
Moves(i, r) == inflight' = [inflight EXCEPT ![i] = r]

\* await fetchProductsFromAirtableCached() or PRODUCTS, find, resolveBaseImageOnDisk
RaceFind(i) ==
  /\ inflight[i].pc = "find"
  /\ \E outcome \in CatalogOutcomes, onDisk \in BOOLEAN :
       Moves(i, [inflight[i] EXCEPT
                   !.outcome = outcome,
                   !.world.onDisk = onDisk,
                   !.pc = IF onDisk /\ FindProduct(ProductsOrFallback(outcome).value,
                                                   inflight[i].body.id) # 0
                          THEN "download" ELSE "respond"])
  /\ UNCHANGED << now, configured, env, cache, cacheBegan, response, pricingVars, call >>

\* await downloadToBuffer(logoUrl)
RaceDownload(i) ==
  /\ inflight[i].pc = "download"
  /\ \E logo \in Outcomes({ inflight[i].body.logoUrl }) :
       Moves(i, [inflight[i] EXCEPT !.world.logo = logo,
                                    !.pc = IF logo.ok THEN "compose" ELSE "respond"])
  /\ UNCHANGED << now, configured, env, cache, cacheBegan, response, pricingVars, call >>

\* await composeMockup(basePath, logoBuf, product); without S3 nothing is awaited
\* before res.json
RaceCompose(i) ==
  /\ inflight[i].pc = "compose"
  /\ \E composed \in Outcomes({ "png" }) :
       Moves(i, [inflight[i] EXCEPT !.world.composed = composed,
                                    !.pc = IF composed.ok /\ env.s3Ready
                                           THEN "upload" ELSE "respond"])
  /\ UNCHANGED << now, configured, env, cache, cacheBegan, response, pricingVars, call >>

\* an upload to a bucket that does not replace
RaceUploadOnce(i) ==
  /\ inflight[i].pc = "upload"
  /\ \E uploaded \in Outcomes({ "etag" }) :
       /\ Moves(i, [inflight[i] EXCEPT !.world.uploaded = uploaded,
                                       !.pc = IF uploaded.ok THEN "push" ELSE "respond"])
       /\ call' = IF uploaded.ok
                  THEN S3Store(Append(call.arg, [key |-> RacerKey(inflight[i]),
                                                 body |-> Composite(inflight[i]), by |-> i]),
                               PutObjectIfAbsent(call.out, RacerKey(inflight[i]),
                                                 Composite(inflight[i])))
                  ELSE call
  /\ UNCHANGED << now, configured, env, cache, cacheBegan, response, pricingVars >>

\* await uploadBuffer(key, mockupBuf, 'image/png')
RaceUpload(i) ==
  /\ inflight[i].pc = "upload"
  /\ \E uploaded \in Outcomes({ "etag" }) :
       /\ Moves(i, [inflight[i] EXCEPT !.world.uploaded = uploaded,
                                       !.pc = IF uploaded.ok THEN "push" ELSE "respond"])
       /\ call' = IF uploaded.ok
                  THEN S3Store(Append(call.arg, [key |-> RacerKey(inflight[i]),
                                                 body |-> Composite(inflight[i]), by |-> i]),
                               PutObject(call.out, RacerKey(inflight[i]),
                                         Composite(inflight[i])))
                  ELSE call
  /\ UNCHANGED << now, configured, env, cache, cacheBegan, response, pricingVars >>

\* try { await pushMockupUrlToAirtable(productId, publicUrl) } catch (_) {}
RacePush(i) ==
  /\ inflight[i].pc = "push"
  /\ \E found \in FoundOutcomes(inflight[i].body.id), updated \in Outcomes({ "recA" }) :
       Moves(i, [inflight[i] EXCEPT !.world.found = found, !.world.updated = updated,
                                    !.pc = "respond"])
  /\ UNCHANGED << now, configured, env, cache, cacheBegan, response, pricingVars, call >>

\* res.json or res.status(...).json: the response of the handler to what the
\* services answered to this request
RaceRespond(i) ==
  /\ inflight[i].pc = "respond"
  /\ response' = MockupResponse_part002(env.s3Ready, configured, inflight[i].body,
                                        inflight[i].outcome, inflight[i].world)
  /\ Moves(i, [inflight[i] EXCEPT !.response = response', !.pc = "done"])
  /\ UNCHANGED << now, configured, env, cache, cacheBegan, pricingVars, call >>

NextRace ==
  \/ \E i \in 1..Len(RaceLogos) : RaceFind(i)
  \/ \E i \in 1..Len(RaceLogos) : RaceDownload(i)
  \/ \E i \in 1..Len(RaceLogos) : RaceCompose(i)
  \/ \E i \in 1..Len(RaceLogos) : RaceUpload(i)
  \/ \E i \in 1..Len(RaceLogos) : RacePush(i)
  \/ \E i \in 1..Len(RaceLogos) : RaceRespond(i)

SpecRace == RaceInit /\ [][NextRace]_vars

\* the services answered this request as they should
OwnServicesFine(r) ==
  /\ RacerIndex(r) # 0
  /\ r.world.onDisk
  /\ r.world.logo.ok
  /\ r.world.composed.ok
  /\ env.s3Ready => r.world.uploaded.ok

\* the success response of the handler
Succeeded(r) ==
  /\ r.response.status = 200
  /\ r.response.body.ok
  /\ r.response.body.uploaded = env.s3Ready
  /\ r.response.body.key = RacerKey(r)

AllDone == \A i \in 1..Len(inflight) : inflight[i].pc = "done"

\* the bucket holds, under the one key, what the last command put there
HoldsLastPut ==
  call.arg # << >> =>
    /\ Len(call.out) = 1
    /\ call.out[1].key = call.arg[Len(call.arg)].key
    /\ call.out[1].body = call.arg[Len(call.arg)].body
    /\ call.out[1].body = Composite(inflight[call.arg[Len(call.arg)].by])
    /\ \A k \in 1..Len(call.arg) : call.arg[k].key = call.out[1].key

\* C21: of two concurrent mockup requests for one customer and product, each
\* whose own services answered gets the success response with the same key,
\* whatever the other did, and once both are done the bucket holds under the
\* key the composite of the upload that happened last.
LastWriterWins ==
  /\ \A i \in 1..Len(inflight) :
       inflight[i].pc = "done" /\ OwnServicesFine(inflight[i]) => Succeeded(inflight[i])
  /\ AllDone => HoldsLastPut

\* C21: both requests succeeded, the first uploaded last, and its composite,
\* which differs from the other's, is the one stored
FirstRequestWroteLast ==
  /\ AllDone
  /\ \A i \in 1..Len(inflight) : Succeeded(inflight[i])
  /\ Len(call.arg) = 2
  /\ call.arg[2].by = 1
  /\ call.arg[1].body # call.arg[2].body
  /\ call.out[1].body = Composite(inflight[1])

====
